---- MODULE Spec2Model ----
(***************************************************************************)
(* Model of the schema-driven extraction engine of the Universal Web       *)
(* Scraper (class Scraper of src/lib/scraper.js and its collaborators).    *)
(*                                                                         *)
(* JavaScript strings are sequences of one-character strings.  A           *)
(* JavaScript value is a record [t, v]: t is "str", "num", "undef" or      *)
(* "null", and v holds the characters of a string or the canonical decimal *)
(* digits of a number.                                                     *)
(***************************************************************************)
EXTENDS Integers, Sequences, FiniteSets, TLC

----------------------------------------------------------------------------
(* Characters and strings                                                  *)

WhiteSpace == {" ", "\t"}

Digits == {"0", "1", "2", "3", "4", "5", "6", "7", "8", "9"}

Uppers == <<"A", "B", "C", "D", "E", "F", "G", "H", "I", "J", "K", "L", "M",
            "N", "O", "P", "Q", "R", "S", "T", "U", "V", "W", "X", "Y", "Z">>

Lowers == <<"a", "b", "c", "d", "e", "f", "g", "h", "i", "j", "k", "l", "m",
            "n", "o", "p", "q", "r", "s", "t", "u", "v", "w", "x", "y", "z">>

Range(f) == {f[k] : k \in DOMAIN f}

\* the class \w of the regular expressions
WordChars == Range(Uppers) \cup Range(Lowers) \cup Digits \cup {"_"}

ToLowerChar(c) ==
  IF \E k \in DOMAIN Uppers : Uppers[k] = c
  THEN Lowers[CHOOSE k \in DOMAIN Uppers : Uppers[k] = c]
  ELSE c

ToUpperChar(c) ==
  IF \E k \in DOMAIN Lowers : Lowers[k] = c
  THEN Uppers[CHOOSE k \in DOMAIN Lowers : Lowers[k] = c]
  ELSE c

\* String.prototype.toLowerCase / toUpperCase
ToLowerCase(s) == [k \in 1..Len(s) |-> ToLowerChar(s[k])]

ToUpperCase(s) == [k \in 1..Len(s) |-> ToUpperChar(s[k])]

Drop(s, k) == SubSeq(s, k + 1, Len(s))

Take(s, k) == SubSeq(s, 1, k)

RECURSIVE TrimStart(_)
TrimStart(s) ==
  IF s # <<>> /\ Head(s) \in WhiteSpace THEN TrimStart(Tail(s)) ELSE s

RECURSIVE TrimEnd(_)
TrimEnd(s) ==
  IF s # <<>> /\ s[Len(s)] \in WhiteSpace THEN TrimEnd(Take(s, Len(s) - 1)) ELSE s

\* String.prototype.trim
Trim(s) == TrimEnd(TrimStart(s))

\* String.prototype.startsWith
StartsWith(s, p) == Len(s) >= Len(p) /\ Take(s, Len(p)) = p

\* String.prototype.endsWith
EndsWith(s, p) == Len(s) >= Len(p) /\ Drop(s, Len(s) - Len(p)) = p

\* String.prototype.split(sep) for a one-character separator
RECURSIVE SplitChar(_, _)
SplitChar(s, sep) ==
  IF \E k \in 1..Len(s) : s[k] = sep
  THEN LET k == CHOOSE j \in 1..Len(s) : s[j] = sep /\ \A m \in 1..(j - 1) : s[m] # sep
       IN  <<Take(s, k - 1)>> \o SplitChar(Drop(s, k), sep)
  ELSE <<s>>

\* Array.prototype.join(sep)
RECURSIVE Join(_, _)
Join(parts, sep) ==
  IF parts = <<>> THEN <<>>
  ELSE IF Len(parts) = 1 THEN parts[1]
  ELSE parts[1] \o sep \o Join(Tail(parts), sep)

\* the sequences over S of length 0..n
SeqsUpTo(S, n) == UNION {[1..k -> S] : k \in 0..n}

----------------------------------------------------------------------------
(* Transform chain parser                                                  *)

CustomPrefix == <<"c", "u", "s", "t", "o", "m", ":">>

\* length of the longest prefix of s made of word characters
RECURSIVE WordRun(_)
WordRun(s) ==
  IF s # <<>> /\ Head(s) \in WordChars THEN 1 + WordRun(Tail(s)) ELSE 0

\* customStr.match(/^custom:(\w+)\((.*)\)$/)
CustomMatch(customStr) ==
  IF ~StartsWith(customStr, CustomPrefix) THEN [matched |-> FALSE, name |-> <<>>, argsStr |-> <<>>]
  ELSE LET rest == Drop(customStr, Len(CustomPrefix))
           n    == WordRun(rest)
       IN  IF /\ n >= 1
              /\ Len(rest) >= n + 2
              /\ rest[n + 1] = "("
              /\ rest[Len(rest)] = ")"
           THEN [matched |-> TRUE, name |-> Take(rest, n),
                 argsStr |-> SubSeq(rest, n + 2, Len(rest) - 1)]
           ELSE [matched |-> FALSE, name |-> <<>>, argsStr |-> <<>>]

\* argsStr ? argsStr.split(';').map(arg => arg.trim()) : []
SplitArgs(argsStr) ==
  IF argsStr = <<>> THEN <<>>
  ELSE LET parts == SplitChar(argsStr, ";")
       IN  [k \in 1..Len(parts) |-> Trim(parts[k])]

\* parseCustomTransform: the invocation, or the thrown
\* "Invalid custom transform syntax" error
ParseCustomTransform(customStr) ==
  LET m == CustomMatch(customStr)
  IN  IF ~m.matched
      THEN [ok |-> FALSE, inv |-> [type |-> "error", name |-> customStr, args |-> <<>>]]
      ELSE [ok |-> TRUE,
            inv |-> [type |-> "custom", name |-> m.name, args |-> SplitArgs(m.argsStr)]]

\* the three-way update of inCustomTransform / parenCount for one character
ParenTrack_Untracked(current, char, inCustomTransform, parenCount) ==
  [inCustomTransform |-> FALSE, parenCount |-> parenCount]

ParenTrack(current, char, inCustomTransform, parenCount) ==
  IF StartsWith(Trim(current), CustomPrefix) /\ char = "("
  THEN [inCustomTransform |-> TRUE, parenCount |-> parenCount + 1]
  ELSE IF inCustomTransform /\ char = "("
  THEN [inCustomTransform |-> TRUE, parenCount |-> parenCount + 1]
  ELSE IF inCustomTransform /\ char = ")"
  THEN [inCustomTransform |-> (parenCount - 1 # 0), parenCount |-> parenCount - 1]
  ELSE [inCustomTransform |-> inCustomTransform, parenCount |-> parenCount]

\* char === ',' && !inCustomTransform
IsSeparator(char, inCustomTransform) == ~inCustomTransform /\ char = ","

\* if (trimmed): an invocation that is empty after trimming is dropped
KeepInvocation_All(trimmed) == TRUE

KeepInvocation(trimmed) == trimmed # <<>>

\* current.trim(): the text of an invocation as it is classified
InvocationText(current) == Trim(current)

\* classification of one trimmed invocation text
Classify(trimmed) ==
  IF StartsWith(trimmed, CustomPrefix)
  THEN ParseCustomTransform(trimmed)
  ELSE [ok |-> TRUE, inv |-> [type |-> "builtin", name |-> trimmed, args |-> <<>>]]

\* the end of one invocation: push it unless it is dropped; a malformed
\* custom invocation throws
PushInvocation(transforms, current) ==
  LET trimmed == InvocationText(current)
  IN  IF ~KeepInvocation(trimmed) THEN [ok |-> TRUE, transforms |-> transforms]
      ELSE LET c == Classify(trimmed)
           IN  IF c.ok THEN [ok |-> TRUE, transforms |-> Append(transforms, c.inv)]
               ELSE [ok |-> FALSE, transforms |-> <<c.inv>>]

\* the locals of parseTransformChain before its loop; ok turns FALSE when
\* parseCustomTransform throws, which ends the loop
ScanStart ==
  [ok |-> TRUE, transforms |-> <<>>, current |-> <<>>,
   inCustomTransform |-> FALSE, parenCount |-> 0]

\* one iteration of the loop over the characters of chain
ScanChar(s, char) ==
  LET f == ParenTrack(s.current, char, s.inCustomTransform, s.parenCount)
  IN  IF IsSeparator(char, f.inCustomTransform)
      THEN LET p == PushInvocation(s.transforms, s.current)
           IN  [ok |-> p.ok, transforms |-> p.transforms, current |-> <<>>,
                inCustomTransform |-> f.inCustomTransform,
                parenCount |-> f.parenCount]
      ELSE [ok |-> TRUE, transforms |-> s.transforms,
            current |-> Append(s.current, char),
            inCustomTransform |-> f.inCustomTransform,
            parenCount |-> f.parenCount]

\* the iterations lo..hi of the loop, in order, from the locals s; a throw
\* ends the loop (the range is halved so that the evaluation stays shallow
\* on long chains)
RECURSIVE ParseScan(_, _, _, _)
ParseScan(chain, lo, hi, s) ==
  IF lo > hi \/ ~s.ok THEN s
  ELSE IF lo = hi THEN ScanChar(s, chain[lo])
  ELSE LET mid  == (lo + hi) \div 2
           left == ParseScan(chain, lo, mid, s)
       IN  IF left.ok THEN ParseScan(chain, mid + 1, hi, left) ELSE left

\* parseTransformChain(chain): [ok |-> TRUE, transforms] or, when
\* parseCustomTransform throws, [ok |-> FALSE, transforms |-> <<the error>>]
ParseTransformChain(chain) ==
  LET s == ParseScan(chain, 1, Len(chain), ScanStart)
  IN  IF s.ok THEN PushInvocation(s.transforms, s.current)
      ELSE [ok |-> FALSE, transforms |-> s.transforms]

----------------------------------------------------------------------------
(* JavaScript values                                                       *)

Str(s) == [t |-> "str", v |-> s]

Num(c) == [t |-> "num", v |-> c]

Undefined == [t |-> "undef", v |-> <<>>]

Null == [t |-> "null", v |-> <<>>]

IsString(value) == value.t = "str"

\* length of the longest prefix of s made of decimal digits
RECURSIVE DigitRun(_)
DigitRun(s) ==
  IF s # <<>> /\ Head(s) \in Digits THEN 1 + DigitRun(Tail(s)) ELSE 0

RECURSIVE StripLeadingZeros(_)
StripLeadingZeros(s) ==
  IF s # <<>> /\ Head(s) = "0" THEN StripLeadingZeros(Tail(s)) ELSE s

RECURSIVE StripTrailingZeros(_)
StripTrailingZeros(s) ==
  IF s # <<>> /\ s[Len(s)] = "0" THEN StripTrailingZeros(Take(s, Len(s) - 1)) ELSE s

\* Number.prototype.toString of sign * intDigits.fracDigits, for the
\* magnitudes printed without an exponent; -0 prints as 0
CanonicalNumber(negative, intDigits, fracDigits) ==
  LET ip == StripLeadingZeros(intDigits)
      fp == StripTrailingZeros(fracDigits)
  IN  IF ip = <<>> /\ fp = <<>> THEN <<"0">>
      ELSE (IF negative THEN <<"-">> ELSE <<>>)
           \o (IF ip = <<>> THEN <<"0">> ELSE ip)
           \o (IF fp = <<>> THEN <<>> ELSE <<".">> \o fp)

\* parseFloat(s) for s without exponent part: the longest prefix of the
\* form [+-] digits [. digits], NaN when it holds no digit
ParseFloat(s) ==
  LET s0       == TrimStart(s)
      signed   == s0 # <<>> /\ Head(s0) \in {"-", "+"}
      negative == s0 # <<>> /\ Head(s0) = "-"
      body     == IF signed THEN Tail(s0) ELSE s0
      ni       == DigitRun(body)
      afterInt == Drop(body, ni)
      hasDot   == afterInt # <<>> /\ Head(afterInt) = "."
      nf       == IF hasDot THEN DigitRun(Tail(afterInt)) ELSE 0
  IN  IF ni = 0 /\ nf = 0 THEN [nan |-> TRUE, v |-> <<>>]
      ELSE [nan |-> FALSE,
            v |-> CanonicalNumber(negative, Take(body, ni),
                                  IF hasDot THEN Take(Tail(afterInt), nf) ELSE <<>>)]

\* value.replace(/[^0-9.-]/g, '')
StripNonNumeric_KeepComma(s) == SelectSeq(s, LAMBDA c : c \in Digits \cup {".", "-", ","})

StripNonNumeric(s) == SelectSeq(s, LAMBDA c : c \in Digits \cup {".", "-"})

\* s.replace(/^\//, '').replace(/\/$/, '')
StripSlashes(s) ==
  LET a == IF s # <<>> /\ Head(s) = "/" THEN Tail(s) ELSE s
  IN  IF a # <<>> /\ a[Len(a)] = "/" THEN Take(a, Len(a) - 1) ELSE a

HttpsScheme == <<"h", "t", "t", "p", "s", ":", "/", "/">>

HttpScheme == <<"h", "t", "t", "p", ":", "/", "/">>

\* index of the first "/" of s, or Len(s) + 1
FirstSlash(s) ==
  IF \E k \in 1..Len(s) : s[k] = "/"
  THEN CHOOSE k \in 1..Len(s) : s[k] = "/" /\ \A m \in 1..(k - 1) : s[m] # "/"
  ELSE Len(s) + 1

\* the characters a modelled host or path is made of
UrlChars == WordChars \cup {".", "-", "/"}

\* new URL(s) for the inputs of the model: a string without ":" is no
\* absolute URL (the constructor throws); "http(s)://host/path" with a
\* non-empty host, no query and no fragment parses, the pathname being the
\* path ("/" when it is empty).  Leading and trailing spaces are stripped
\* and the scheme is matched case-insensitively, as the URL parser does.
\* Any other string is outside the model (modelled |-> FALSE).
ParseUrl(s) ==
  LET t      == Trim(s)
      low    == ToLowerCase(t)
      scheme == IF StartsWith(low, HttpsScheme) THEN HttpsScheme
                ELSE IF StartsWith(low, HttpScheme) THEN HttpScheme ELSE <<>>
      rest   == Drop(t, Len(scheme))
      h      == FirstSlash(rest)
      path   == Drop(rest, h - 1)
  IN  IF \A k \in 1..Len(t) : t[k] # ":"
      THEN [modelled |-> TRUE, valid |-> FALSE, pathname |-> <<>>]
      ELSE IF /\ scheme # <<>>
              /\ h > 1
              /\ \A k \in 1..Len(rest) : rest[k] \in UrlChars
              /\ \A k \in 1..(Len(rest) - 1) : ~(rest[k] = "/" /\ rest[k + 1] \in {".", "/"})
           THEN [modelled |-> TRUE, valid |-> TRUE,
                 pathname |-> IF path = <<>> THEN <<"/">> ELSE path]
           ELSE [modelled |-> FALSE, valid |-> FALSE, pathname |-> <<>>]

----------------------------------------------------------------------------
(* The transform functions of src/transforms                               *)

\* transforms/trim.js
trim(value) == IF ~IsString(value) THEN value ELSE Str(Trim(value.v))

\* transforms/lowercase.js
lowercase(value) == IF ~IsString(value) THEN value ELSE Str(ToLowerCase(value.v))

\* transforms/uppercase.js
uppercase(value) == IF ~IsString(value) THEN value ELSE Str(ToUpperCase(value.v))

\* transforms/number.js
number(value) ==
  IF ~IsString(value) THEN value
  ELSE LET num == ParseFloat(StripNonNumeric(value.v))
       IN  IF num.nan THEN value ELSE Num(num.v)

\* transforms/slugFromUrl.js
slugFromUrl(value) ==
  IF ~IsString(value) THEN value
  ELSE LET url == ParseUrl(value.v)
       IN  IF url.valid THEN Str(StripSlashes(url.pathname))
           ELSE IF StripSlashes(value.v) # <<>> THEN Str(StripSlashes(value.v))
           ELSE value

\* transforms/removeSuffix.js
removeSuffix(value, suffix) ==
  IF ~IsString(value) \/ suffix = <<>> THEN value
  ELSE IF EndsWith(value.v, suffix)
  THEN Str(Trim(Take(value.v, Len(value.v) - Len(suffix))))
  ELSE value

----------------------------------------------------------------------------
(* Scraper: transform execution                                            *)

\* A call result is [ok, value]: ok = FALSE when the call throws, and value
\* is then the value the call was applied to.
Returns(value) == [ok |-> TRUE, value |-> value]

Throws(value) == [ok |-> FALSE, value |-> value]

T_trim == <<"t", "r", "i", "m">>

T_lowercase == <<"l", "o", "w", "e", "r", "c", "a", "s", "e">>

T_uppercase == <<"u", "p", "p", "e", "r", "c", "a", "s", "e">>

T_number == <<"n", "u", "m", "b", "e", "r">>

T_slugFromUrl == <<"s", "l", "u", "g", "F", "r", "o", "m", "U", "r", "l">>

BuiltinNames == {T_trim, T_lowercase, T_uppercase, T_number, T_slugFromUrl}

\* applyBuiltinTransform(value, transform).  The method calls of the cases
\* (value.trim(), value.toLowerCase(), value.toUpperCase(), value.replace())
\* exist on strings only: on a number they throw a TypeError.  In the
\* slugFromUrl case new URL(12) throws inside the try, and value.replace()
\* of the catch block throws out of the method.
ApplyBuiltinTransform(value, transform) ==
  IF transform = T_trim
  THEN IF IsString(value) THEN Returns(Str(Trim(value.v))) ELSE Throws(value)
  ELSE IF transform = T_lowercase
  THEN IF IsString(value) THEN Returns(Str(ToLowerCase(value.v))) ELSE Throws(value)
  ELSE IF transform = T_uppercase
  THEN IF IsString(value) THEN Returns(Str(ToUpperCase(value.v))) ELSE Throws(value)
  ELSE IF transform = T_number
  THEN IF IsString(value)
       THEN LET num == ParseFloat(StripNonNumeric(value.v))
            IN  IF num.nan THEN Returns(value) ELSE Returns(Num(num.v))
       ELSE Throws(value)
  ELSE IF transform = T_slugFromUrl
  THEN IF IsString(value)
       THEN LET url == ParseUrl(value.v)
            IN  IF url.valid THEN Returns(Str(StripSlashes(url.pathname)))
                ELSE IF StripSlashes(value.v) # <<>>
                THEN Returns(Str(StripSlashes(value.v)))
                ELSE Returns(value)
       ELSE Throws(value)
  ELSE Returns(value)

\* What the module directory data/customTransformations holds under a name:
\* no file ("missing"), a module whose default export is not a function
\* ("notFunction"), a function that throws ("throws"), or a function that
\* returns a value ("marks": the plug-in of the README's template, here one
\* that appends "!" and its arguments to a string).
ModuleKinds == {"missing", "notFunction", "throws", "marks"}

ModuleOf(dir, name) == IF name \in DOMAIN dir THEN dir[name] ELSE "missing"

\* transformFn(value, ...args) of a loaded function
CallCustom(kind, value, args) ==
  IF kind = "throws" THEN Throws(value)
  ELSE IF IsString(value) THEN Returns(Str(value.v \o <<"!">> \o Join(args, <<"|">>)))
  ELSE Returns(value)

\* loadCustomTransform(name): served from this.customTransforms when the
\* name is cached, else imported, checked and cached.  cache maps the cached
\* names to the loaded functions; imports lists the import() calls made.
LoadCustomTransform_NoCache(name, cache, dir) ==
  IF name \in DOMAIN cache
  THEN [ok |-> TRUE, fn |-> cache[name], cache |-> cache, imports |-> <<>>]
  ELSE IF ModuleOf(dir, name) \in {"missing", "notFunction"}
  THEN [ok |-> FALSE, fn |-> "none", cache |-> cache, imports |-> <<name>>]
  ELSE [ok |-> TRUE, fn |-> ModuleOf(dir, name), cache |-> cache, imports |-> <<name>>]

LoadCustomTransform(name, cache, dir) ==
  IF name \in DOMAIN cache
  THEN [ok |-> TRUE, fn |-> cache[name], cache |-> cache, imports |-> <<>>]
  ELSE IF ModuleOf(dir, name) \in {"missing", "notFunction"}
  THEN [ok |-> FALSE, fn |-> "none", cache |-> cache, imports |-> <<name>>]
  ELSE [ok |-> TRUE, fn |-> ModuleOf(dir, name),
        cache |-> [x \in DOMAIN cache \cup {name} |->
                     IF x = name THEN ModuleOf(dir, name) ELSE cache[x]],
        imports |-> <<name>>]

\* a line handed to this.log: its leading emoji and what it is about
LogLine(prefix, about) == [prefix |-> prefix, about |-> about]

\* the catch block of applyCustomTransform: log and return value
CustomFailure_Rethrow(value) == Throws(value)

CustomFailure(value) == Returns(value)

\* applyCustomTransform(value, name, args)
ApplyCustomTransform(value, name, args, cache, dir) ==
  LET l == LoadCustomTransform(name, cache, dir)
      r == IF l.ok THEN CallCustom(l.fn, value, args) ELSE Throws(value)
      c == IF r.ok THEN r ELSE CustomFailure(value)
  IN  [ok |-> c.ok, value |-> c.value, cache |-> l.cache, imports |-> l.imports,
       logs |-> IF r.ok THEN <<>> ELSE <<LogLine("warning", "customTransform")>>]

\* the outcome r of a built-in as the outcome of an iteration, which
\* imports and logs nothing
BuiltinStep(r, cache) ==
  [ok |-> r.ok, value |-> r.value, cache |-> cache, imports |-> <<>>, logs |-> <<>>]

\* one iteration of the for loop of transformValue: the invocation
\* transformObj applied to result; ok = FALSE when it throws
TransformStep(transformObj, result, cache, dir) ==
  IF transformObj.type = "builtin"
  THEN BuiltinStep(ApplyBuiltinTransform(result, transformObj.name), cache)
  ELSE ApplyCustomTransform(result, transformObj.name, transformObj.args, cache, dir)

RECURSIVE TransformLoop(_, _, _, _, _, _, _)

\* the rest of the loop after the iteration k, whose outcome is s: a throw
\* leaves the loop
TransformNext(transforms, k, result, s, dir, imports, logs) ==
  IF s.ok
  THEN TransformLoop(transforms, k + 1, s.value, s.cache, dir,
                     imports \o s.imports, logs \o s.logs)
  ELSE [ok |-> FALSE, value |-> result, cache |-> s.cache,
        imports |-> imports \o s.imports, logs |-> logs \o s.logs]

\* the for loop of transformValue over the parsed invocations
TransformLoop(transforms, k, result, cache, dir, imports, logs) ==
  IF k > Len(transforms)
  THEN [ok |-> TRUE, value |-> result, cache |-> cache, imports |-> imports, logs |-> logs]
  ELSE TransformNext(transforms, k, result,
                     TransformStep(transforms[k], result, cache, dir), dir, imports, logs)

\* column.transform is absent (undefined) or a string
NoTransform == [t |-> "undef", v |-> <<>>]

\* transformValue once the chain is parsed into p: a parse error is thrown
\* on, else the invocations are applied
TransformParsed(p, value, cache, dir) ==
  IF ~p.ok
  THEN [ok |-> FALSE, value |-> value, cache |-> cache, imports |-> <<>>, logs |-> <<>>]
  ELSE TransformLoop(p.transforms, 1, value, cache, dir, <<>>, <<>>)

\* transformValue(value, transform): ok = FALSE when it throws (a parse
\* error of the chain, or a TypeError of a built-in)
TransformValue(value, transform, cache, dir) ==
  IF transform.t # "str" \/ transform.v = <<>> \/ ~IsString(value)
  THEN [ok |-> TRUE, value |-> value, cache |-> cache, imports |-> <<>>, logs |-> <<>>]
  ELSE TransformParsed(ParseTransformChain(transform.v), value, cache, dir)

----------------------------------------------------------------------------
(* Scraper: field extraction                                               *)

\* A document is the sequence of its elements in document order.  An element
\* is [matches, text, html, attrs]: the simple selectors it matches, its
\* text content, its inner markup and its attributes.  A selector string is
\* the sequence of the simple selectors of its comma-separated group.

\* a simple selector the document query rejects (it throws on it)
InvalidSelector == "[["

\* $(selector): the matching elements in document order, or a throw
Query(doc, selector) ==
  IF \E k \in 1..Len(selector) : selector[k] = InvalidSelector
  THEN [ok |-> FALSE, elements |-> <<>>]
  ELSE [ok |-> TRUE,
        elements |-> SelectSeq(doc, LAMBDA el :
                        \E k \in 1..Len(selector) : selector[k] \in el.matches)]

\* elements.first().attr(name)
Attr(el, name) == IF name \in DOMAIN el.attrs THEN Str(el.attrs[name]) ELSE Undefined

\* the origin of a modelled absolute URL: scheme and host
Origin(url) ==
  LET scheme == IF StartsWith(url, HttpsScheme) THEN HttpsScheme ELSE HttpScheme
      rest   == Drop(url, Len(scheme))
  IN  scheme \o Take(rest, FirstSlash(rest) - 1)

\* new URL(value, url).href for a root-relative value ("/path"); any other
\* relative reference is outside the model
ResolveUrl(value, url) == Origin(url) \o value

\* the switch of extractData on column.attribute, for the first element
ExtractAttribute(el, attribute, url) ==
  IF attribute \in {"text", "innerText"} THEN Str(Trim(el.text))
  ELSE IF attribute \in {"html", "innerHTML"} THEN Str(el.html)
  ELSE IF attribute = "outerHTML" THEN Str(<<"<", "e", ">">> \o el.html \o <<"<", "/", "e", ">">>)
  ELSE IF attribute = "src"
  THEN LET value == Attr(el, "src")
       IN  IF value.t = "str" /\ value.v # <<>> /\ ~StartsWith(value.v, <<"h", "t", "t", "p">>)
           THEN Str(ResolveUrl(value.v, url))
           ELSE value
  ELSE Attr(el, attribute)

\* value !== undefined && value !== null && value !== ''
NonEmpty(value) == value.t \notin {"undef", "null"} /\ value # Str(<<>>)

\* column.default || ''
DefaultOf(column) == IF column.default.t = "str" THEN column.default ELSE Str(<<>>)

\* The result of extractData: ok = FALSE when it throws; queried lists the
\* selectors handed to $ in order; cache, imports and logs as in
\* TransformValue.
ExtractResult(ok, value, queried, cache, imports, logs) ==
  [ok |-> ok, value |-> value, queried |-> queried, cache |-> cache,
   imports |-> imports, logs |-> logs]

\* An iteration of the for loop of extractData ends in [found, value, cache,
\* imports, logs]: found = TRUE when it returns value, else the loop goes on.

\* an iteration that goes on to the next candidate
NotFound(value, cache, logs) ==
  [found |-> FALSE, value |-> value, cache |-> cache, imports |-> <<>>, logs |-> logs]

\* return await this.transformValue(...) inside the try: a throw of
\* transformValue is caught by catch (selectorError), which logs it
TransformedOutcome(tv) ==
  [found |-> tv.ok, value |-> tv.value, cache |-> tv.cache, imports |-> tv.imports,
   logs |-> IF tv.ok THEN tv.logs ELSE Append(tv.logs, LogLine("warning", "selector"))]

\* the test of the extracted value and its transformation
ExtractValue(value, column, cache, dir) ==
  IF NonEmpty(value)
  THEN TransformedOutcome(TransformValue(value, column.transform, cache, dir))
  ELSE NotFound(value, cache, <<>>)

\* the body of the try for the outcome q of $(selector)
ExtractFirst_Abort(q, column, url, cache, dir) ==
  IF ~q.ok
  THEN [found |-> TRUE, value |-> DefaultOf(column), cache |-> cache, imports |-> <<>>,
        logs |-> <<LogLine("warning", "selector")>>]
  ELSE IF q.elements = <<>> THEN NotFound(Undefined, cache, <<>>)
  ELSE ExtractValue(ExtractAttribute(q.elements[1], column.attribute, url),
                    column, cache, dir)

ExtractFirst(q, column, url, cache, dir) ==
  IF ~q.ok THEN NotFound(Undefined, cache, <<LogLine("warning", "selector")>>)
  ELSE IF q.elements = <<>> THEN NotFound(Undefined, cache, <<>>)
  ELSE ExtractValue(ExtractAttribute(q.elements[1], column.attribute, url),
                    column, cache, dir)

\* one iteration of the for loop of extractData, for the candidate selector
ExtractStep(doc, column, url, selector, cache, dir) ==
  ExtractFirst(Query(doc, selector), column, url, cache, dir)

RECURSIVE ExtractLoop(_, _, _, _, _, _, _, _, _)

\* the rest of the loop after the iteration k, which handed asked to $ so
\* far and ended in s
ExtractNext(doc, column, url, selectors, k, asked, dir, acc, s) ==
  IF s.found
  THEN ExtractResult(TRUE, s.value, asked, s.cache, acc.imports \o s.imports,
                     acc.logs \o s.logs)
  ELSE ExtractLoop(doc, column, url, selectors, k + 1, asked, s.cache, dir,
                   [imports |-> acc.imports \o s.imports, logs |-> acc.logs \o s.logs])

\* the for loop of extractData over the selector candidates
ExtractLoop(doc, column, url, selectors, k, queried, cache, dir, acc) ==
  IF k > Len(selectors)
  THEN ExtractResult(TRUE, DefaultOf(column), queried, cache, acc.imports, acc.logs)
  ELSE ExtractNext(doc, column, url, selectors, k, Append(queried, selectors[k]), dir, acc,
                   ExtractStep(doc, column, url, selectors[k], cache, dir))

\* Array.isArray(column.selector) ? column.selector : [column.selector]
SelectorsOf(column) ==
  IF column.selector.kind = "array" THEN column.selector.list ELSE <<column.selector.list>>

\* return await this.transformValue(url, column.transform), outside any try
UrlResult(tv) == ExtractResult(tv.ok, tv.value, <<>>, tv.cache, tv.imports, tv.logs)

\* extractData($, column, url); column.selector is [kind, list] with kind
\* "null" (no selector), "string" (list is the selector) or "array"
ExtractData(doc, column, url, cache, dir) ==
  IF column.attribute = "url"
  THEN UrlResult(TransformValue(Str(url), column.transform, cache, dir))
  ELSE IF column.selector.kind = "null"
  THEN ExtractResult(TRUE, DefaultOf(column), <<>>, cache, <<>>, <<>>)
  ELSE ExtractLoop(doc, column, url, SelectorsOf(column), 1, <<>>, cache, dir,
                   [imports |-> <<>>, logs |-> <<>>])

----------------------------------------------------------------------------
(* Scraper: record extraction                                              *)

\* result[name] = value
SetField(result, name, value) ==
  [x \in DOMAIN result \cup {name} |-> IF x = name THEN value ELSE result[x]]

\* new Date().toISOString()
Timestamp == Str(<<"T">>)

\* one iteration of the for loop of scrapePage: x is the outcome of
\* extractData for column; a throw is logged and the default is stored
ColumnDone_NoDefault(acc, column, x) ==
  [result  |-> SetField(acc.result, column.name, x.value),
   cache   |-> x.cache,
   imports |-> acc.imports \o x.imports,
   logs    |-> acc.logs \o x.logs,
   queried |-> Append(acc.queried, x.queried),
   raised  |-> Append(acc.raised, ~x.ok)]

ColumnDone(acc, column, x) ==
  [result  |-> SetField(acc.result, column.name,
                        IF x.ok THEN x.value ELSE DefaultOf(column)),
   cache   |-> x.cache,
   imports |-> acc.imports \o x.imports,
   logs    |-> acc.logs \o x.logs
               \o (IF x.ok THEN <<>> ELSE <<LogLine("warning", "column")>>),
   queried |-> Append(acc.queried, x.queried),
   raised  |-> Append(acc.raised, ~x.ok)]

\* the for loop of scrapePage over schema.columns
RECURSIVE ColumnLoop(_, _, _, _, _, _)
ColumnLoop(doc, columns, url, k, dir, acc) ==
  IF k > Len(columns) THEN acc
  ELSE ColumnLoop(doc, columns, url, k + 1, dir,
         ColumnDone(acc, columns[k],
                    ExtractData(doc, columns[k], url, acc.cache, dir)))

\* the record scrapePage builds from the page content; queried and raised
\* tell, per column, the selectors handed to $ and whether extractData threw
ExtractRecord(doc, columns, url, cache, dir) ==
  ColumnLoop(doc, columns, url, 1, dir,
    [result  |-> [x \in {"url", "timestamp"} |-> IF x = "url" THEN Str(url) ELSE Timestamp],
     cache   |-> cache,
     imports |-> <<>>,
     logs    |-> <<>>,
     queried |-> <<>>,
     raised  |-> <<>>])

----------------------------------------------------------------------------
(* Scraper: log                                                            *)

\* the prefixes of the messages log(message) prints in debug mode only: the
\* warning sign and the retry sign
QuietPrefixes == {"warning", "retry"}

\* log(message): the lines written to the console, with this.options.debug
\* and process.env.DEBUG === 'true'
Log(message, debug, envDebug) ==
  IF debug \/ envDebug THEN <<[stamped |-> TRUE, message |-> message]>>
  ELSE IF message.prefix \notin QuietPrefixes
  THEN <<[stamped |-> FALSE, message |-> message]>>
  ELSE <<>>

\* the console after the messages were handed to log one after another
RECURSIVE Console(_, _, _)
Console(messages, debug, envDebug) ==
  IF messages = <<>> THEN <<>>
  ELSE Log(Head(messages), debug, envDebug) \o Console(Tail(messages), debug, envDebug)

----------------------------------------------------------------------------
(* Validator: validateColumnNames                                          *)

\* the end of the longest run of characters of cls from position p
RECURSIVE SkipClass(_, _, _)
SkipClass(s, p, cls) ==
  IF p <= Len(s) /\ s[p] \in cls THEN SkipClass(s, p + 1, cls) ELSE p

\* \w+(?:\([^)]*\))? at position p: the position after the match, 0 for none
PatternItem(s, p) ==
  LET q == SkipClass(s, p, WordChars)
  IN  IF q = p THEN 0
      ELSE IF q <= Len(s) /\ s[q] = "(" /\ \E r \in (q + 1)..Len(s) : s[r] = ")"
      THEN 1 + CHOOSE r \in (q + 1)..Len(s) :
                 s[r] = ")" /\ \A x \in (q + 1)..(r - 1) : s[x] # ")"
      ELSE q

\* the pattern of a column's transform,
\* /^(\w+(?:\([^)]*\))?)(\s*,\s*(\w+(?:\([^)]*\))?))*$/, from position p
RECURSIVE TransformPattern(_, _)
TransformPattern(s, p) ==
  LET q == PatternItem(s, p)
  IN  IF q = 0 THEN FALSE
      ELSE IF q > Len(s) THEN TRUE
      ELSE LET c == SkipClass(s, q, WhiteSpace)
           IN  /\ c <= Len(s)
               /\ s[c] = ","
               /\ TransformPattern(s, SkipClass(s, c + 1, WhiteSpace))

\* validateSchema on a schema whose one column has this transform: the
\* validated schema, or the thrown "Schema validation error"
ValidateSchema(transform) ==
  IF TransformPattern(transform, 1)
  THEN [ok |-> TRUE, transform |-> transform]
  ELSE [ok |-> FALSE, transform |-> <<>>]

ReservedNames == {"constructor", "prototype", "__proto__", "toString"}

\* validateColumnNames(columns) returns: no name is used twice and none is
\* reserved
ValidateColumnNames(columns) ==
  /\ \A j, k \in 1..Len(columns) : columns[j].name = columns[k].name => j = k
  /\ \A k \in 1..Len(columns) : columns[k].name \notin ReservedNames

----------------------------------------------------------------------------
(* Validator: validateScrapedData                                          *)

\* A row is a record of the batch: a function from its keys to values.

\* !value: undefined, null, '' and the number 0 are falsy
Falsy(value) ==
  value.t \in {"undef", "null"} \/ value = Str(<<>>) \/ value = Num(<<"0">>)

\* row[name]
Field(row, name) == IF name \in DOMAIN row THEN row[name] ELSE Undefined

\* schema.columns.filter(col => col.required)
RequiredColumns(columns) == SelectSeq(columns, LAMBDA col : col.required)

\* !value || (typeof value === 'string' && value.trim() === '')
MissingRequired(value) == Falsy(value) \/ (IsString(value) /\ Trim(value.v) = <<>>)

\* value.length > 10000
LargeContentLength == 10000

\* value && typeof value === 'string' && value.length > 10000
LargeContent(value) ==
  ~Falsy(value) /\ IsString(value) /\ Len(value.v) > LargeContentLength

\* Object.entries(row): the keys in insertion order, which is url, timestamp,
\* the columns in schema order for a record of scrapePage and url, error,
\* timestamp for an error record
EntryKeys(row, columns) ==
  SelectSeq(<<"url", "error", "timestamp">> \o [k \in 1..Len(columns) |-> columns[k].name],
            LAMBDA key : key \in DOMAIN row)

\* validation.errors of a row: one "Missing required field" per column
RowErrors(row, required) ==
  SelectSeq([k \in 1..Len(required) |-> required[k].name],
            LAMBDA name : MissingRequired(Field(row, name)))

\* validation.warnings of a row: one "Large content" per key
RowWarnings(row, keys) == SelectSeq(keys, LAMBDA key : LargeContent(row[key]))

\* the validation object of the row at position index (0-based)
Validation(row, index, columns) ==
  [rowIndex |-> index + 1,
   errors   |-> RowErrors(row, RequiredColumns(columns)),
   warnings |-> RowWarnings(row, EntryKeys(row, columns))]

\* { ...row, _validation: validation }
Annotated(row, validation) == SetField(row, "_validation", validation)

\* the pushes of one call of the forEach callback
PlaceRow_DropInvalid(results, row, validation) ==
  [valid    |-> IF validation.errors = <<>> THEN Append(results.valid, row)
                ELSE results.valid,
   invalid  |-> results.invalid,
   warnings |-> results.warnings]

PlaceRow(results, row, validation) ==
  [valid    |-> IF validation.errors = <<>> THEN Append(results.valid, row)
                ELSE results.valid,
   invalid  |-> IF validation.errors # <<>>
                THEN Append(results.invalid, Annotated(row, validation))
                ELSE results.invalid,
   warnings |-> IF validation.warnings # <<>>
                THEN Append(results.warnings,
                            [rowIndex |-> validation.rowIndex, url |-> Field(row, "url"),
                             warnings |-> validation.warnings])
                ELSE results.warnings]

\* data.forEach((row, index) => ...)
RECURSIVE ValidateRows(_, _, _, _)
ValidateRows(data, k, columns, results) ==
  IF k > Len(data) THEN results
  ELSE ValidateRows(data, k + 1, columns,
                    PlaceRow(results, data[k], Validation(data[k], k - 1, columns)))

\* validateScrapedData(data, schema)
ValidateScrapedData(data, columns) ==
  ValidateRows(data, 1, columns, [valid |-> <<>>, invalid |-> <<>>, warnings |-> <<>>])

----------------------------------------------------------------------------
(* CsvHandler.writeResults and UniversalScraper.saveResults                *)

NoFile == [t |-> "none"]

QuoteChar == "\""

\* the characters that make the CSV writer quote a field
NeedsQuotes(s) == \E k \in 1..Len(s) : s[k] \in {",", QuoteChar, "\n", "\r"}

\* the field with its quotes doubled
RECURSIVE DoubleQuotes(_)
DoubleQuotes(s) ==
  IF s = <<>> THEN <<>>
  ELSE (IF Head(s) = QuoteChar THEN <<QuoteChar, QuoteChar>> ELSE <<Head(s)>>)
       \o DoubleQuotes(Tail(s))

\* the text the CSV writer puts for record[id]: nothing for undefined and
\* null, String(value) otherwise, quoted where needed
Cell(value) ==
  IF value.t \in {"undef", "null"} THEN <<>>
  ELSE IF NeedsQuotes(value.v) THEN <<QuoteChar>> \o DoubleQuotes(value.v) \o <<QuoteChar>>
  ELSE value.v

\* header = columns.map(col => ({ id: col.name, ... })): the ids in order
Header(columns) == [k \in 1..Len(columns) |-> columns[k].name]

\* the line of one record: the cells of the header's ids, in header order
Line(record, header) == [k \in 1..Len(header) |-> Cell(Field(record, header[k]))]

\* writeResults(data, outputPath, columns): the file written, or none for
\* empty data
WriteResults_SkipFailed(data, columns) ==
  IF data = <<>> THEN NoFile
  ELSE LET kept == SelectSeq(data, LAMBDA record : "error" \notin DOMAIN record)
       IN  [t      |-> "file",
            header |-> Header(columns),
            lines  |-> [r \in 1..Len(kept) |-> Line(kept[r], Header(columns))]]

WriteResults(data, columns) ==
  IF data = <<>> THEN NoFile
  ELSE [t      |-> "file",
        header |-> Header(columns),
        lines  |-> [r \in 1..Len(data) |-> Line(data[r], Header(columns))]]

\* the second writeResults of saveResults, under validation.invalid.length > 0
WriteInvalid(validation, columns) ==
  IF Len(validation.invalid) > 0 THEN WriteResults(validation.invalid, columns) ELSE NoFile

\* saveResults(results): the main output file and the file of the invalid
\* records
SaveResults(results, columns) ==
  IF Len(results) = 0 THEN [main |-> NoFile, invalid |-> NoFile]
  ELSE [main    |-> WriteResults(results, columns),
        invalid |-> WriteInvalid(ValidateScrapedData(results, columns), columns)]

----------------------------------------------------------------------------
(* Bounds and inputs                                                       *)

\* number of URLs of a batch
MaxUrls == 3

\* largest maxRetries a configuration sets explicitly
MaxRetriesCfg == 2

\* an option the configuration leaves out
Absent == -1

DefaultDelay == 1000

DefaultMaxRetries == 3

DefaultRetryDelay == 2000

DigitChar(k) == <<"0", "1", "2", "3", "4", "5", "6", "7", "8", "9">>[k + 1]

\* the k-th URL of the input list: https://a.io/p/k/
UrlOf(k) == HttpsScheme \o <<"a", ".", "i", "o", "/", "p", "/", DigitChar(k), "/">>

S_bad == CustomPrefix \o <<"b", "a", "d">>

S_mark == CustomPrefix \o <<"m", "a", "r", "k", "(", "a", ",", "b", ")">>

El(matches, text, html, attrs) ==
  [matches |-> matches, text |-> text, html |-> html, attrs |-> attrs]

NoAttrs == [x \in {} |-> <<>>]

E_h1 == El({"h1"}, <<" ", "H", "i", " ">>, <<"H", "i">>, NoAttrs)

E_title == El({".title"}, <<"X">>, <<"X">>, NoAttrs)

E_price == El({".price"}, <<"$", "5">>, <<"$", "5">>, NoAttrs)

\* the page contents the renderer delivers
Docs == {<<E_h1, E_title, E_price>>, <<E_title>>}

Col(name, selector, attribute, required, default, transform) ==
  [name |-> name, selector |-> selector, attribute |-> attribute,
   required |-> required, default |-> default, transform |-> transform]

SelArray(list) == [kind |-> "array", list |-> list]

SelString(s) == [kind |-> "string", list |-> s]

SelNull == [kind |-> "null", list |-> <<>>]

S_NA == <<"N", "/", "A">>

\* the schemas of the batch runs
Schemas ==
  { <<Col("title", SelArray(<< <<"h1">>, <<".title">> >>), "text", TRUE, Str(S_NA), Str(T_trim)),
      Col("slug", SelNull, "url", FALSE, Undefined, Str(T_slugFromUrl))>>,
    <<Col("title", SelArray(<< <<"h1">>, <<".title">> >>), "text", TRUE, Str(S_NA), Str(S_bad)),
      Col("price", SelString(<<".price">>), "text", FALSE, Undefined, Str(T_number)),
      Col("slug", SelNull, "url", FALSE, Str(S_NA), Str(S_bad))>> }

\* the message of the error the browser raises in the k-th attempt of a URL:
\* the attempts of a URL fail with different messages
AttemptError(k) == <<"e", DigitChar(k)>>

\* "Page scraping failed: "
PageScrapingFailed ==
  <<"P", "a", "g", "e", " ", "s", "c", "r", "a", "p", "i", "n", "g", " ",
    "f", "a", "i", "l", "e", "d", ":", " ">>

\* the module directory of the batch runs
BatchModules == [x \in {<<"m", "a", "r", "k">>} |-> "marks"]

----------------------------------------------------------------------------
(* Scraper: the batch of URLs                                              *)

VARIABLES
  config,            \* the options handed to the Scraper constructor
  options,           \* this.options
  context,           \* this.context is set (initialize() has run)
  customTransforms,  \* this.customTransforms
  moduleDir,         \* the files of data/customTransformations
  urls,              \* the URL list handed to scrapeUrls
  schema,            \* schema.columns
  pc,                \* where scrapeUrls stands
  i,                 \* loop index of scrapeUrls (1-based)
  attempt,           \* parameter attempt of the running scrapeWithRetry
  results,           \* the array results of scrapeUrls
  pending,           \* the promises that are not settled yet
  openPages,         \* pages opened by newPage() and not closed
  trace,             \* what happened so far, in order
  call,              \* the arguments of a single function call
  ret                \* its result

vars == <<config, options, context, customTransforms, moduleDir, urls, schema,
          pc, i, attempt, results, pending, openPages, trace, call, ret>>

None == [t |-> "none"]

\* options.x || d
OrDefault(x, d) == IF x = Absent \/ x = 0 THEN d ELSE x

\* configSchema of the validator: delay and retryDelay are numbers from 0
\* up, maxRetries a number from 0 to 10, each optional
ConfigSchema(cfg) ==
  /\ cfg.delay = Absent \/ cfg.delay >= 0
  /\ cfg.maxRetries = Absent \/ (cfg.maxRetries >= 0 /\ cfg.maxRetries <= 10)
  /\ cfg.retryDelay = Absent \/ cfg.retryDelay >= 0

\* the constructor of Scraper
Constructor(cfg) ==
  [delay      |-> OrDefault(cfg.delay, DefaultDelay),
   maxRetries |-> OrDefault(cfg.maxRetries, DefaultMaxRetries),
   retryDelay |-> OrDefault(cfg.retryDelay, DefaultRetryDelay)]

Ev(e, url, n) == [e |-> e, url |-> url, n |-> n]

Promise(kind, url, n) == [kind |-> kind, url |-> url, n |-> n]

\* The rest of a step of scrapeUrls up to its next await: the control
\* state, the promises created and the events.
Cont(p, ii, k, created, events) ==
  [pc |-> p, i |-> ii, attempt |-> k, created |-> created, events |-> events]

\* scrapeWithRetry(url, schema, k) calls scrapePage, which awaits newPage()
StartAttempt(ii, k) ==
  Cont("opening", ii, k, {Promise("render", ii, k)}, <<Ev("render", ii, k)>>)

\* for (let i = 0; i < urls.length; i++) ... return results
LoopHead(ii) ==
  IF ii <= Len(urls) THEN StartAttempt(ii, 1)
  ELSE Cont("done", ii, 0, {}, <<>>)

\* if (i < urls.length - 1) await this.delay(this.options.delay)
AfterRecord_NoAwait(ii) ==
  IF ii < Len(urls)
  THEN LET h == LoopHead(ii + 1)
       IN  Cont(h.pc, h.i, h.attempt,
                h.created \cup {Promise("pacing", ii, options.delay)},
                <<Ev("pacing", ii, options.delay)>> \o h.events)
  ELSE LoopHead(ii + 1)

AfterRecord_EveryUrl(ii) ==
  IF ii <= Len(urls)
  THEN Cont("pacing", ii, 0, {Promise("pacing", ii, options.delay)},
            <<Ev("pacing", ii, options.delay)>>)
  ELSE LoopHead(ii + 1)

AfterRecord(ii) ==
  IF ii < Len(urls)
  THEN Cont("pacing", ii, 0, {Promise("pacing", ii, options.delay)},
            <<Ev("pacing", ii, options.delay)>>)
  ELSE LoopHead(ii + 1)

\* attempt < this.options.maxRetries
ShouldRetry_Inclusive(k, maxRetries) == k <= maxRetries

ShouldRetry(k, maxRetries) == k < maxRetries

\* this.options.retryDelay * attempt
BackoffDelay_Flat(retryDelay, k) == retryDelay

BackoffDelay(retryDelay, k) == retryDelay * k

\* results.push(record)
PushResult_Front(res, record) == <<record>> \o res

PushResult(res, record) == Append(res, record)

\* { url, error: error.message, timestamp } of the catch block of scrapeUrls
ErrorRecord_Generic(url, message) ==
  [x \in {"url", "error", "timestamp"} |->
     IF x = "url" THEN Str(url) ELSE IF x = "error" THEN Str(<<"f", "a", "i", "l", "e", "d">>)
     ELSE Timestamp]

ErrorRecord(url, message) ==
  [x \in {"url", "error", "timestamp"} |->
     IF x = "url" THEN Str(url) ELSE IF x = "error" THEN Str(message) ELSE Timestamp]

Apply(c, settled, events) ==
  /\ pc' = c.pc
  /\ i' = c.i
  /\ attempt' = c.attempt
  /\ pending' = (pending \ settled) \cup c.created
  /\ trace' = trace \o events \o c.events

\* scrapeWithRetry has returned or thrown for good: the record is pushed
Terminal_StopOnFailure(record, e, settled) ==
  /\ results' = PushResult(results, record)
  /\ Apply(IF e = "failed" THEN Cont("done", i, 0, {}, <<>>) ELSE AfterRecord(i),
           settled, <<Ev(e, i, attempt)>>)

Terminal(record, e, settled) ==
  /\ results' = PushResult(results, record)
  /\ Apply(AfterRecord(i), settled, <<Ev(e, i, attempt)>>)

\* the catch block of scrapeWithRetry
OnRenderError(message, settled) ==
  IF ShouldRetry(attempt, options.maxRetries)
  THEN /\ Apply(Cont("backoff", i, attempt,
                     {Promise("backoff", i, BackoffDelay(options.retryDelay, attempt))},
                     <<Ev("backoff", i, BackoffDelay(options.retryDelay, attempt))>>),
                settled, <<>>)
       /\ UNCHANGED results
  ELSE Terminal(ErrorRecord(urls[i], message), "failed", settled)

Rendering == {p \in pending : p.kind = "render"}

\* initialize(): the browser context is created
Initialize ==
  /\ pc = "idle"
  /\ ~context
  /\ context' = TRUE
  /\ UNCHANGED <<config, options, customTransforms, moduleDir, urls, schema, pc, i,
                 attempt, results, pending, openPages, trace, call, ret>>

\* scrapeUrls(urls, schema) is called: it throws without a context, else
\* runs to its first await
ScrapeUrls ==
  /\ pc = "idle"
  /\ IF ~context
     THEN /\ pc' = "threw"
          /\ UNCHANGED <<i, attempt, pending, trace>>
     ELSE Apply(LoopHead(1), {}, <<>>)
  /\ UNCHANGED <<config, options, context, customTransforms, moduleDir, urls, schema,
                 results, openPages, call, ret>>

\* context.newPage() resolves: scrapePage goes on to page.goto
\* finally { await page.close(); }: the number of open pages after it
Finally_Leak(n) == n

Finally(n) == n - 1

NewPageOk ==
  /\ pc = "opening"
  /\ pc' = "rendering"
  /\ openPages' = openPages + 1
  /\ UNCHANGED <<config, options, context, customTransforms, moduleDir, urls, schema,
                 i, attempt, results, pending, trace, call, ret>>

\* context.newPage() rejects: scrapePage throws the error as it is
NewPageFails ==
  /\ pc = "opening"
  /\ OnRenderError(AttemptError(attempt), Rendering)
  /\ UNCHANGED <<config, options, context, customTransforms, moduleDir, urls, schema,
                 openPages, call, ret>>

\* goto, waitForSelector, evaluate or content rejects: the page is closed
\* and scrapePage throws "Page scraping failed: ..."
RenderFails ==
  /\ pc = "rendering"
  /\ openPages' = Finally(openPages)
  /\ OnRenderError(PageScrapingFailed \o AttemptError(attempt), Rendering)
  /\ UNCHANGED <<config, options, context, customTransforms, moduleDir, urls, schema,
                 call, ret>>

\* the page content arrives: the columns are extracted, the page is closed,
\* scrapePage returns the record and scrapeUrls pushes it
RenderOk ==
  /\ pc = "rendering"
  /\ \E doc \in Docs :
       LET x == ExtractRecord(doc, schema, urls[i], customTransforms, moduleDir)
       IN  /\ customTransforms' = x.cache
           /\ Terminal(x.result, "success", Rendering)
  /\ openPages' = Finally(openPages)
  /\ UNCHANGED <<config, options, context, moduleDir, urls, schema, call, ret>>

\* a timer of this.delay(ms) fires; the code awaiting it goes on
TimerFires ==
  \E p \in pending :
    /\ p.kind \in {"backoff", "pacing"}
    /\ IF pc = "backoff" /\ p.kind = "backoff"
       THEN Apply(StartAttempt(i, attempt + 1), {p}, <<>>)
       ELSE IF pc = "pacing" /\ p.kind = "pacing"
       THEN Apply(LoopHead(i + 1), {p}, <<>>)
       ELSE /\ pending' = pending \ {p}
            /\ UNCHANGED <<pc, i, attempt, trace>>
    /\ UNCHANGED <<config, options, context, customTransforms, moduleDir, urls, schema,
                   results, openPages, call, ret>>

\* the waits a configuration sets: none (0, so the defaults apply) or both
Timings == {[delay |-> 0, retryDelay |-> 0], [delay |-> 7, retryDelay |-> 5]}

Configs ==
  {[delay |-> t.delay, maxRetries |-> m, retryDelay |-> t.retryDelay] :
     t \in Timings, m \in {Absent} \cup 0..MaxRetriesCfg}

Init ==
  /\ config \in Configs
  /\ options = Constructor(config)
  /\ context = FALSE
  /\ customTransforms = <<>>
  /\ moduleDir = BatchModules
  /\ urls \in {[k \in 1..n |-> UrlOf(k)] : n \in 0..MaxUrls}
  /\ schema \in Schemas
  /\ pc = "idle"
  /\ i = 0
  /\ attempt = 0
  /\ results = <<>>
  /\ pending = {}
  /\ openPages = 0
  /\ trace = <<>>
  /\ call = None
  /\ ret = None

Next ==
  \/ Initialize
  \/ ScrapeUrls
  \/ NewPageOk
  \/ NewPageFails
  \/ RenderFails
  \/ RenderOk
  \/ TimerFires

Spec == Init /\ [][Next]_vars

\* The batch with its scheduling: the caller goes on to call initialize and
\* scrapeUrls, every newPage and every render settles, and every timer of
\* setTimeout fires.
SpecLive ==
  /\ Init
  /\ [][Next]_vars
  /\ WF_vars(Initialize)
  /\ WF_vars(ScrapeUrls)
  /\ WF_vars(NewPageOk \/ NewPageFails)
  /\ WF_vars(RenderFails \/ RenderOk)
  /\ WF_vars(TimerFires)

----------------------------------------------------------------------------
(* Single calls of the parser, the transform executor and the extractor    *)

\* no batch runs while a single function is called
BatchIdle ==
  /\ config = [delay |-> Absent, maxRetries |-> Absent, retryDelay |-> Absent]
  /\ options = Constructor(config)
  /\ context = FALSE
  /\ customTransforms = <<>>
  /\ urls = <<>>
  /\ schema = <<>>
  /\ pc = "call"
  /\ i = 0
  /\ attempt = 0
  /\ results = <<>>
  /\ pending = {}
  /\ openPages = 0
  /\ trace = <<>>

BatchUnchanged ==
  UNCHANGED <<config, options, context, moduleDir, urls, schema, pc, i, attempt,
              results, pending, openPages, trace>>

\* number of invocation texts joined into a chain
MaxInvocations == 3

S_spaced_lowercase == <<" ", "l", "o", "w", "e", "r", "c", "a", "s", "e", " ">>

S_f_empty == CustomPrefix \o <<"f", "(", ")">>

S_cleanHTML ==
  CustomPrefix \o <<"c", "l", "e", "a", "n", "H", "T", "M", "L", "(", "h", "1", ",", "p", ";",
                    ".", "a", "d", "s", ",", ".", "s", "i", "d", "e", "b", "a", "r", ")">>

S_g_spaced ==
  <<" ">> \o CustomPrefix \o <<"g", "(", " ", "a", " ", ",", " ", "b", " ", ";", "c", ")", " ">>

S_removeSuffix ==
  <<"r", "e", "m", "o", "v", "e", "S", "u", "f", "f", "i", "x", "(", " ", "h", "o", "m", "e",
    " ", "d", "e", "l", "i", "v", "e", "r", "y", ")">>

S_unclosed == CustomPrefix \o <<"f", "(", "a", ",", "b">>

S_nested == CustomPrefix \o <<"h", "(", "(", "a", ",", "b", ")", ",", "c", ")">>

\* The invocation texts the chains are built of, each with the invocation
\* the grammar of the transform specification gives it: kind "builtin",
\* "custom", "blank" (empty after trimming) or "malformed" (starts with
\* custom: without the form custom:<name>(<args>)).
Item(text, kind, name, args) == [text |-> text, kind |-> kind, name |-> name, args |-> args]

ParseItems ==
  { Item(T_trim, "builtin", T_trim, <<>>),
    Item(T_lowercase, "builtin", T_lowercase, <<>>),
    Item(S_spaced_lowercase, "builtin", T_lowercase, <<>>),
    Item(<<>>, "blank", <<>>, <<>>),
    Item(<<" ", " ">>, "blank", <<>>, <<>>),
    Item(S_removeSuffix, "builtin", S_removeSuffix, <<>>),
    Item(S_f_empty, "custom", <<"f">>, <<>>),
    Item(S_cleanHTML, "custom", <<"c", "l", "e", "a", "n", "H", "T", "M", "L">>,
         << <<"h", "1", ",", "p">>,
            <<".", "a", "d", "s", ",", ".", "s", "i", "d", "e", "b", "a", "r">> >>),
    Item(S_g_spaced, "custom", <<"g">>, << <<"a", " ", ",", " ", "b">>, <<"c">> >>),
    Item(S_nested, "custom", <<"h">>, << <<"(", "a", ",", "b", ")", ",", "c">> >>),
    Item(S_bad, "malformed", <<>>, <<>>),
    Item(S_unclosed, "malformed", <<>>, <<>>) }

\* the chain text of a sequence of items: their texts joined by ","
ChainOf(items) == Join([k \in 1..Len(items) |-> items[k].text], <<",">>)

InitParse ==
  /\ BatchIdle
  /\ moduleDir = <<>>
  /\ call \in {[fn |-> "parseTransformChain", items |-> its] :
                 its \in SeqsUpTo(ParseItems, MaxInvocations)}
  /\ ret = None

\* parseTransformChain(chain) is called and returns or throws
CallParse ==
  /\ call.fn = "parseTransformChain"
  /\ ret = None
  /\ ret' = ParseTransformChain(ChainOf(call.items))
  /\ UNCHANGED <<call, customTransforms>>
  /\ BatchUnchanged

SpecParse == InitParse /\ [][CallParse]_vars

InitSchema ==
  /\ BatchIdle
  /\ moduleDir = <<>>
  /\ call \in {[fn |-> "validateSchema", items |-> its] :
                 its \in SeqsUpTo(ParseItems, MaxInvocations) \ {<<>>}}
  /\ ret = None

\* loadSchema calls validateSchema, which returns or throws
LoadSchema ==
  /\ call.fn = "validateSchema"
  /\ ret = None
  /\ ret' = ValidateSchema(ChainOf(call.items))
  /\ UNCHANGED <<call, customTransforms>>
  /\ BatchUnchanged

SpecSchema == InitSchema /\ [][LoadSchema]_vars

\* number of invocations of a chain handed to transformValue
MaxChain == 3

S_missing == CustomPrefix \o <<"n", "o", "n", "e", "(", ")">>

S_notfn == CustomPrefix \o <<"n", "o", "t", "f", "n", "(", "a", ")">>

S_boom == CustomPrefix \o <<"b", "o", "o", "m", "(", ")">>

S_mark_xy == CustomPrefix \o <<"m", "a", "r", "k", "(", "x", ";", "y", ")">>

\* the module directory of the single calls; no file is called none.js
CallModules ==
  [x \in {<<"n", "o", "t", "f", "n">>, <<"b", "o", "o", "m">>, <<"m", "a", "r", "k">>} |->
     IF x = <<"n", "o", "t", "f", "n">> THEN "notFunction"
     ELSE IF x = <<"b", "o", "o", "m">> THEN "throws" ELSE "marks"]

TransformItems ==
  { Item(T_trim, "builtin", T_trim, <<>>),
    Item(T_lowercase, "builtin", T_lowercase, <<>>),
    Item(T_uppercase, "builtin", T_uppercase, <<>>),
    Item(T_number, "builtin", T_number, <<>>),
    Item(T_slugFromUrl, "builtin", T_slugFromUrl, <<>>),
    Item(S_missing, "custom", <<"n", "o", "n", "e">>, <<>>),
    Item(S_notfn, "custom", <<"n", "o", "t", "f", "n">>, << <<"a">> >>),
    Item(S_boom, "custom", <<"b", "o", "o", "m">>, <<>>),
    Item(S_mark_xy, "custom", <<"m", "a", "r", "k">>, << <<"x">>, <<"y">> >>) }

\* the suffix of the README's chain "removeSuffix( home delivery),trim,lowercase"
S_home_delivery == <<" ", "h", "o", "m", "e", " ", "d", "e", "l", "i", "v", "e", "r", "y">>

S_Product_1 == <<"P", "r", "o", "d", "u", "c", "t", " ", "1">>

\* the strings handed to transformValue
TransformInputs ==
  { <<" ", "A", "b", " ">>,
    <<"$", "1", ",", "2", "3", "4", ".", "5", "6", " ", "U", "S", "D">>,
    <<"a", "b", "c">>,
    <<" ", "-", "0", "7", ".", "5", "0", " ">>,
    HttpsScheme \o <<"e", "x", "a", "m", "p", "l", "e", ".", "c", "o", "m", "/",
                     "b", "l", "o", "g", "/", "p", "o", "s", "t", "/">>,
    <<"/", "a", "/", "b">>,
    <<"/">> }

\* the invocations of the README's chain "removeSuffix( home delivery),trim,lowercase"
SuffixItems ==
  { Item(S_removeSuffix, "builtin", S_removeSuffix, <<>>),
    Item(T_trim, "builtin", T_trim, <<>>),
    Item(T_lowercase, "builtin", T_lowercase, <<>>) }

\* the strings handed to transformValue with these: one that ends with the
\* suffix, one that holds it elsewhere, one without it
SuffixInputs ==
  { S_Product_1 \o S_home_delivery,
    S_home_delivery \o S_Product_1,
    <<" ", "A", "b", " ">> }

InitTransform ==
  /\ BatchIdle
  /\ moduleDir = CallModules
  /\ call \in {[fn |-> "transformValue", value |-> Str(s), items |-> its] :
                 s \in TransformInputs, its \in SeqsUpTo(TransformItems, MaxChain)}
             \cup {[fn |-> "transformValue", value |-> Str(s), items |-> its] :
                     s \in SuffixInputs, its \in SeqsUpTo(SuffixItems, MaxChain)}
  /\ ret = None

\* column.transform for a chain of items: absent when there is none
TransformOf(items) == IF items = <<>> THEN NoTransform ELSE Str(ChainOf(items))

\* transformValue(value, transform) is called and returns or throws
CallTransform ==
  /\ call.fn = "transformValue"
  /\ ret = None
  /\ LET r == TransformValue(call.value, TransformOf(call.items), customTransforms, moduleDir)
     IN  /\ ret' = r
         /\ customTransforms' = r.cache
  /\ UNCHANGED call
  /\ BatchUnchanged

SpecTransform == InitTransform /\ [][CallTransform]_vars

\* number of elements of a document
MaxElements == 2

\* number of selector candidates of a column
MaxSelectors == 2

\* <h1>, an element of class title with an href, an element both selectors
\* match whose content is one space, and an element of class title with an
\* amount
E_link == El({".title"}, <<"X">>, <<"X">>, [x \in {"href"} |-> <<"/", "x">>])

E_space == El({"h1", ".title"}, <<" ">>, <<" ">>, [x \in {"href"} |-> <<>>])

E_amount == El({".title"}, <<"$", "5">>, <<"$", "5">>, NoAttrs)

ExtractElements == {E_h1, E_link, E_space, E_amount}

ExtractSelectors == {<<"h1">>, <<".title">>, <<InvalidSelector>>}

S_number_trim == T_number \o <<",">> \o T_trim

ExtractTransforms == {NoTransform, Str(T_trim), Str(S_number_trim), Str(S_bad), Str(S_boom)}

ExtractColumns ==
  { Col("f", SelArray(sel), attribute, FALSE, default, transform) :
      sel \in SeqsUpTo(ExtractSelectors, MaxSelectors) \ {<<>>},
      attribute \in {"text", "html", "href"},
      default \in {Undefined, Str(S_NA)},
      transform \in ExtractTransforms }
  \cup
  { Col("f", selector, attribute, FALSE, Str(S_NA), transform) :
      selector \in {SelNull, SelString(<<"h1", ".title">>), SelArray(<<>>)},
      attribute \in {"text", "url"},
      transform \in ExtractTransforms }
  \cup
  { Col("f", SelArray(sel), "href", FALSE, Str(S_NA), Str(T_lowercase)) :
      sel \in SeqsUpTo(ExtractSelectors, MaxSelectors) \ {<<>>} }

InitExtract ==
  /\ BatchIdle
  /\ moduleDir = CallModules
  /\ call \in {[fn |-> "extractData", doc |-> doc, column |-> column, url |-> UrlOf(1)] :
                 doc \in SeqsUpTo(ExtractElements, MaxElements), column \in ExtractColumns}
  /\ ret = None

\* extractData($, column, url) is called and returns or throws
CallExtract ==
  /\ call.fn = "extractData"
  /\ ret = None
  /\ LET r == ExtractData(call.doc, call.column, call.url, customTransforms, moduleDir)
     IN  /\ ret' = r
         /\ customTransforms' = r.cache
  /\ UNCHANGED call
  /\ BatchUnchanged

SpecExtract == InitExtract /\ [][CallExtract]_vars

\* number of records handed to validateScrapedData
MaxRows == 2

\* a text longer than the large-content limit
LargeText == [k \in 1..(LargeContentLength + 1) |-> "a"]

\* the values of the first column: strings (plain, empty, blank, large), the
\* numbers 0 and 5, undefined and null
ValidateValues ==
  {Str(<<"x">>), Str(<<>>), Str(<<" ">>), Str(LargeText), Num(<<"0">>), Num(<<"5">>),
   Undefined, Null}

\* a record of scrapePage for the columns a and b
Row(a, b) ==
  [x \in {"url", "timestamp", "a", "b"} |->
     IF x = "url" THEN Str(UrlOf(1)) ELSE IF x = "timestamp" THEN Timestamp
     ELSE IF x = "a" THEN a ELSE b]

\* the records: both columns set, an error record (no column), and a record
\* without the column b
ValidateRows_Input ==
  {Row(a, b) : a \in ValidateValues, b \in {Str(<<"y">>), Num(<<"0">>)}}
  \cup {ErrorRecord(UrlOf(1), PageScrapingFailed \o <<"e", "1">>)}
  \cup {[x \in {"url", "timestamp", "a"} |->
          IF x = "url" THEN Str(UrlOf(1)) ELSE IF x = "timestamp" THEN Timestamp
          ELSE Str(<<"x">>)]}

\* the schemas: which of the columns a and b are required
ValidateSchemas ==
  {<<Col("a", SelNull, "text", ra, Undefined, NoTransform),
     Col("b", SelNull, "text", rb, Undefined, NoTransform)>> :
     ra \in BOOLEAN, rb \in BOOLEAN}

InitValidate ==
  /\ BatchIdle
  /\ moduleDir = <<>>
  /\ call \in {[fn |-> "validateScrapedData", data |-> data, columns |-> columns] :
                 data \in SeqsUpTo(ValidateRows_Input, MaxRows),
                 columns \in ValidateSchemas}
  /\ ret = None

\* validateScrapedData(data, schema) is called and returns
CallValidate ==
  /\ call.fn = "validateScrapedData"
  /\ ret = None
  /\ ret' = ValidateScrapedData(call.data, call.columns)
  /\ UNCHANGED <<call, customTransforms>>
  /\ BatchUnchanged

SpecValidate == InitValidate /\ [][CallValidate]_vars

\* number of columns of a schema handed to scrapePage
MaxColumns == 2

\* the columns of these schemas: the text of <h1>, the page URL as it is
\* (the url column of the README's example) and the slug of the page URL,
\* under the names of a data column and of the two fields scrapePage sets
RecordColumns ==
  UNION { { Col(name, SelArray(<< <<"h1">> >>), "text", FALSE, Str(S_NA), Str(T_trim)),
            Col(name, SelNull, "url", TRUE, Undefined, NoTransform),
            Col(name, SelNull, "url", FALSE, Undefined, Str(T_slugFromUrl)) } :
          name \in {"title", "url", "timestamp"} }

\* the schemas that pass validateColumnNames
RecordSchemas == {columns \in SeqsUpTo(RecordColumns, MaxColumns) : ValidateColumnNames(columns)}

\* columns whose extraction has contained failures: an invalid selector
\* and a custom transform that throws, a malformed custom transform on the
\* page URL, and none
LogColumns ==
  { Col("title", SelArray(<< <<InvalidSelector>>, <<"h1">> >>), "text", FALSE, Str(S_NA),
        Str(S_boom)),
    Col("slug", SelNull, "url", FALSE, Str(S_NA), Str(S_bad)),
    Col("price", SelArray(<< <<".title">> >>), "text", FALSE, Undefined, NoTransform) }

LogSchemas == {columns \in SeqsUpTo(LogColumns, MaxColumns) : ValidateColumnNames(columns)}

\* scrapePage of a Scraper built with options.debug = debug, in a process
\* with DEBUG=true in its environment or not
RecordCall(doc, columns, debug, envDebug) ==
  [fn |-> "scrapePage", doc |-> doc, columns |-> columns, url |-> UrlOf(1),
   debug |-> debug, envDebug |-> envDebug]

InitRecord ==
  /\ BatchIdle
  /\ moduleDir = CallModules
  /\ call \in {RecordCall(doc, columns, FALSE, FALSE) :
                 doc \in SeqsUpTo(ExtractElements, MaxElements), columns \in RecordSchemas}
             \cup {RecordCall(doc, columns, debug, envDebug) :
                     doc \in SeqsUpTo(ExtractElements, MaxElements), columns \in LogSchemas,
                     debug \in BOOLEAN, envDebug \in BOOLEAN}
  /\ ret = None

\* the outcome x of the column loop with the lines it left on the console
Logged(x, debug, envDebug) ==
  [result |-> x.result, cache |-> x.cache, imports |-> x.imports, logs |-> x.logs,
   queried |-> x.queried, raised |-> x.raised,
   console |-> Console(x.logs, debug, envDebug)]

\* scrapePage(url, schema) has the content of the page and returns its record
CallRecord ==
  /\ call.fn = "scrapePage"
  /\ ret = None
  /\ ret' = Logged(ExtractRecord(call.doc, call.columns, call.url, customTransforms,
                                 moduleDir),
                   call.debug, call.envDebug)
  /\ customTransforms' = ret'.cache
  /\ UNCHANGED call
  /\ BatchUnchanged

SpecRecord == InitRecord /\ [][CallRecord]_vars

\* the values of the first column of the records handed to saveResults: a
\* plain string, the empty string, a string with a comma and a quote, the
\* number 0 and undefined
SaveValues ==
  {Str(<<"x">>), Str(<<>>), Str(<<"a", ",", QuoteChar>>), Num(<<"0">>), Undefined}

\* the records of the batch: both columns set, a failed URL, and a record
\* without the column b
SaveRows_Input ==
  {Row(a, b) : a \in SaveValues, b \in {Str(<<"y">>), Num(<<"0">>)}}
  \cup {ErrorRecord(UrlOf(1), PageScrapingFailed \o AttemptError(3))}
  \cup {[x \in {"url", "timestamp", "a"} |->
          IF x = "url" THEN Str(UrlOf(1)) ELSE IF x = "timestamp" THEN Timestamp
          ELSE Str(<<"x">>)]}

InitSave ==
  /\ BatchIdle
  /\ moduleDir = <<>>
  /\ call \in {[fn |-> "saveResults", data |-> data, columns |-> columns] :
                 data \in SeqsUpTo(SaveRows_Input, MaxRows),
                 columns \in ValidateSchemas}
  /\ ret = None

\* saveResults(results) is called with the schema and returns
CallSave ==
  /\ call.fn = "saveResults"
  /\ ret = None
  /\ ret' = SaveResults(call.data, call.columns)
  /\ UNCHANGED <<call, customTransforms>>
  /\ BatchUnchanged

SpecSave == InitSave /\ [][CallSave]_vars

----------------------------------------------------------------------------
(* Properties of the batch                                                 *)

Terminals == {"success", "failed"}

IsErrorRecord(record) == "error" \in DOMAIN record

\* the positions of the trace holding an event of kind e
EventsOf(e) == {p \in 1..Len(trace) : trace[p].e = e}

\* C1: when scrapeUrls returns, results holds exactly one record per input
\* URL and the record at position k is the record of the k-th URL: it carries
\* that URL, and it is an error record exactly when that URL failed.
C1_OneRecordPerUrlInOrder ==
  pc = "done" =>
    /\ Len(results) = Len(urls)
    /\ \A k \in 1..Len(urls) :
         /\ results[k]["url"] = Str(urls[k])
         /\ IsErrorRecord(results[k]) <=>
              \E p \in EventsOf("failed") : trace[p].url = k

\* three URLs, the second exhausts its retries, the first and third succeed
C1_Witness ==
  /\ pc = "done"
  /\ Len(urls) = 3
  /\ ~IsErrorRecord(results[1])
  /\ IsErrorRecord(results[2])
  /\ ~IsErrorRecord(results[3])

\* C2: a failed render of attempt k < maxRetries is followed by a backoff of
\* retryDelay * k and then by the render of attempt k + 1; with k >= maxRetries
\* the URL fails.  So no URL is rendered more than maxRetries times, a URL
\* fails only at its maxRetries-th render, its first render is attempt 1, and
\* a render that succeeds ends the URL.
C2_RetryStateMachine ==
  \A p \in 1..Len(trace) :
    LET ev == trace[p] IN
    /\ ev.e = "render" =>
         /\ ev.n >= 1
         /\ ev.n <= options.maxRetries
         /\ ev.n = 1 <=> (p = 1 \/ trace[p - 1].e = "pacing")
         /\ p < Len(trace) =>
              \/ trace[p + 1] = Ev("success", ev.url, ev.n)
              \/ /\ ev.n < options.maxRetries
                 /\ trace[p + 1] = Ev("backoff", ev.url, options.retryDelay * ev.n)
                 /\ p + 1 < Len(trace) => trace[p + 2] = Ev("render", ev.url, ev.n + 1)
              \/ /\ ev.n >= options.maxRetries
                 /\ trace[p + 1] = Ev("failed", ev.url, ev.n)
    /\ ev.e = "failed" => ev.n = options.maxRetries
    /\ ev.e \in Terminals =>
         \A q \in (p + 1)..Len(trace) : trace[q].e = "render" => trace[q].url # ev.url

\* a URL failed after three renders with backoffs of 5 and 10
C2_Witness ==
  /\ options.maxRetries = 3
  /\ options.retryDelay = 5
  /\ Len(trace) >= 6
  /\ SubSeq(trace, 1, 6) = <<Ev("render", 1, 1), Ev("backoff", 1, 5), Ev("render", 1, 2),
                             Ev("backoff", 1, 10), Ev("render", 1, 3), Ev("failed", 1, 3)>>

\* C3: at most one promise (render, backoff delay or pacing delay) is pending
\* at any time, and while a URL is rendered or backed off every URL before it
\* has its record, its terminal event preceding the first render.
C3_Sequential ==
  /\ Cardinality(pending) <= 1
  /\ \A p \in pending : p.kind \in {"render", "backoff"} => Len(results) = p.url - 1
  /\ \A p \in EventsOf("render") :
       trace[p].url > 1 =>
         \E q \in 1..(p - 1) : trace[q].e \in Terminals /\ trace[q].url = trace[p].url - 1

\* the second URL is being rendered after the first has failed
C3_Witness ==
  /\ pending = {Promise("render", 2, 1)}
  /\ Len(results) = 1
  /\ IsErrorRecord(results[1])

\* C4: every pacing delay has the length delay, directly follows the terminal
\* event of a URL that is not the last one and directly precedes the first
\* render of the next URL; every URL but the last is followed by one, also
\* a failed URL; so a batch of n >= 1 URLs has exactly n - 1 of them.
C4_PacingBetweenUrls ==
  /\ \A p \in EventsOf("pacing") :
       /\ p > 1
       /\ trace[p - 1].e \in Terminals
       /\ trace[p - 1].url = trace[p].url
       /\ trace[p].url < Len(urls)
       /\ trace[p].n = options.delay
       /\ p < Len(trace) => trace[p + 1] = Ev("render", trace[p].url + 1, 1)
  /\ \A p \in 1..Len(trace) :
       (trace[p].e \in Terminals /\ trace[p].url < Len(urls)) =>
         (p < Len(trace) /\ trace[p + 1].e = "pacing")
  /\ (pc = "done" /\ Len(urls) >= 1) =>
       Cardinality(EventsOf("pacing")) = Len(urls) - 1

\* a finished batch of three URLs whose second URL failed: two pacing delays
C4_Witness ==
  /\ pc = "done"
  /\ Len(urls) = 3
  /\ \E p \in EventsOf("failed") : trace[p].url = 2 /\ trace[p + 1].e = "pacing"
  /\ Cardinality(EventsOf("pacing")) = 2

\* the columns of the schema on which extractData throws for the page doc of
\* the k-th URL
Raising(doc, k) ==
  {c \in 1..Len(schema) : ~ExtractData(doc, schema[c], urls[k], <<>>, moduleDir).ok}

\* the value of a column whose extraction had the outcome x: the extracted
\* value, or the default (or "") when it threw
Expected(x, column) == IF x.ok THEN x.value ELSE DefaultOf(column)

\* C11: the record of a rendered page is a success record and stays one;
\* when scrapeUrls pushes it, it holds, for the page it was extracted from,
\* the default (or "") of every column whose extraction threw and the
\* extracted value of every other column; the render it came from is the
\* last render of its URL.
C11_ColumnFailureKeepsRecord ==
  /\ (/\ pc \in {"pacing", "done"}
      /\ \E p \in EventsOf("success") : trace[p].url = Len(results)) =>
       \E doc \in Docs :
         \A c \in 1..Len(schema) :
           results[Len(results)][schema[c].name] =
             Expected(ExtractData(doc, schema[c], urls[Len(results)], <<>>, moduleDir),
                      schema[c])
  /\ \A p \in EventsOf("success") :
       /\ Len(results) >= trace[p].url
       /\ ~IsErrorRecord(results[trace[p].url])
       /\ trace[p - 1] = Ev("render", trace[p].url, trace[p].n)
       /\ \A q \in (p + 1)..Len(trace) :
            trace[q].e = "render" => trace[q].url # trace[p].url

\* a page whose slug column threw (a malformed custom transform on the URL)
\* gave a success record with the default there and the extracted price
C11_Witness ==
  /\ pc = "done"
  /\ Len(urls) = 1
  /\ Raising(<<E_h1, E_title, E_price>>, 1) = {3}
  /\ ~IsErrorRecord(results[1])
  /\ results[1]["slug"] = Str(S_NA)
  /\ results[1]["price"] = Num(<<"5">>)
  /\ Cardinality(EventsOf("render")) = 1

\* C14: the record of a URL that failed has the keys url, error and
\* timestamp and no other (so none of the schema's columns); url is the URL,
\* and error is the message of its last attempt, the maxRetries-th: the
\* error of newPage as it is, or "Page scraping failed: " and the error of
\* the render.
C14_ErrorRecordOfLastAttempt ==
  \A p \in EventsOf("failed") :
    LET k == trace[p].url
        n == trace[p].n
    IN  /\ Len(results) >= k
        /\ DOMAIN results[k] = {"url", "error", "timestamp"}
        /\ \A c \in 1..Len(schema) : schema[c].name \notin DOMAIN results[k]
        /\ results[k]["url"] = Str(urls[k])
        /\ n = options.maxRetries
        /\ results[k]["error"] \in {Str(AttemptError(n)),
                                    Str(PageScrapingFailed \o AttemptError(n))}

\* a URL failed at its third attempt and its record carries the message of
\* that attempt, which differs from the messages of the first two
C14_Witness ==
  /\ \E p \in EventsOf("failed") : trace[p].url = 1 /\ trace[p].n = 3
  /\ Len(results) >= 1
  /\ results[1]["error"] = Str(PageScrapingFailed \o <<"e", "3">>)
  /\ AttemptError(1) # AttemptError(3)

\* the backoff waits of URL u among the first k events, added up
RECURSIVE BackoffWait(_, _)
BackoffWait(u, k) ==
  IF k = 0 THEN 0
  ELSE BackoffWait(u, k - 1)
       + (IF trace[k].e = "backoff" /\ trace[k].url = u THEN trace[k].n ELSE 0)

\* 1 + 2 + ... + f
Triangle(f) == (f * (f + 1)) \div 2

\* C15: a URL that succeeds at attempt f + 1, after f failures (f <
\* maxRetries), has a success record, and its backoff waits add up to
\* retryDelay * 1 + ... + retryDelay * f (3 * retryDelay for f = 2); no
\* backoff of the URL follows its success.
C15_BackoffSum ==
  \A p \in EventsOf("success") :
    LET u == trace[p].url
        f == trace[p].n - 1
    IN  /\ f < options.maxRetries
        /\ Len(results) >= u
        /\ ~IsErrorRecord(results[u])
        /\ BackoffWait(u, p) = options.retryDelay * Triangle(f)
        /\ BackoffWait(u, Len(trace)) = BackoffWait(u, p)
        /\ f = 2 => BackoffWait(u, Len(trace)) = 3 * options.retryDelay

\* maxRetries is 3 and the first URL succeeded at its third attempt, after
\* backoffs of 5 and 10; the batch went on
C15_Witness ==
  /\ options.maxRetries = 3
  /\ options.retryDelay = 5
  /\ \E p \in EventsOf("success") :
       /\ trace[p] = Ev("success", 1, 3)
       /\ p < Len(trace)
  /\ BackoffWait(1, Len(trace)) = 15

\* the renders of URL u in the trace
RendersOf(u) == {p \in EventsOf("render") : trace[p].url = u}

\* C18: maxRetries counts the retries: a URL recorded as failed was
\* rendered maxRetries + 1 times, once and then maxRetries times again.
C18_RetriesAfterFirstAttempt ==
  \A p \in EventsOf("failed") :
    Cardinality(RendersOf(trace[p].url)) = options.maxRetries + 1

\* C28: with a configuration the validator admits, every pacing wait is the
\* configured delay, every backoff wait is the configured retryDelay times
\* the attempt (none when it is 0), and no URL is rendered more often than
\* the configured maxRetries allows (once when it is 0).
C28_ConfiguredValuesUsed ==
  ConfigSchema(config) =>
    /\ config.delay # Absent =>
         \A p \in EventsOf("pacing") : trace[p].n = config.delay
    /\ config.retryDelay # Absent =>
         \A p \in EventsOf("backoff") :
           \E k \in 1..10 : trace[p].n = config.retryDelay * k
    /\ config.maxRetries # Absent =>
         \A p \in EventsOf("render") :
           trace[p].n <= (IF config.maxRetries = 0 THEN 1 ELSE config.maxRetries)

\* C30: a page is open only while scrapePage renders it: never more than
\* one, and none while a new page is being asked for, between the attempts,
\* during a backoff or pacing wait, or after scrapeUrls has returned.
C30_PagesClosed ==
  /\ openPages \in {0, 1}
  /\ openPages = 1 <=> pc = "rendering"

\* scrapeUrls has returned after a URL whose every render failed on an open
\* page and a URL that was scraped, and no page is open
C30_Witness ==
  /\ pc = "done"
  /\ openPages = 0
  /\ \E k \in 2..3 : /\ Len(results) >= 2
                      /\ results[1] = ErrorRecord(urls[1], PageScrapingFailed \o AttemptError(k))
                      /\ Ev("backoff", 1, BackoffDelay(options.retryDelay, 1)) \in Range(trace)
  /\ \E p \in EventsOf("success") : TRUE

\* scrapeUrls is running
Running == pc \notin {"idle", "threw", "done"}

\* scrapeUrls has returned the records of the whole list
Returns_All == pc = "done" /\ Len(results) = Len(urls)

\* C27: once started, scrapeUrls returns, with a record for every URL of the
\* list, whichever renders fail; and no URL is rendered more than maxRetries
\* times.
C27_BatchTerminates ==
  /\ Running ~> Returns_All
  /\ [](\A u \in 1..Len(urls) : Cardinality(RendersOf(u)) <= options.maxRetries)

\* three URLs, the first failed at its third render, and scrapeUrls has
\* returned three records
C27_Witness ==
  /\ Returns_All
  /\ Len(urls) = 3
  /\ Ev("failed", 1, 3) \in Range(trace)
  /\ Cardinality(RendersOf(1)) = 3
  /\ \E p \in EventsOf("success") : trace[p].url = 3

----------------------------------------------------------------------------
(* Properties of the parser                                                *)

Returned(fn) == ret # None /\ call.fn = fn

\* the items that are not dropped
NonBlank(items) == SelectSeq(items, LAMBDA it : it.kind # "blank")

Customs(items) == SelectSeq(items, LAMBDA it : it.kind = "custom")

WellFormed(items) == \A k \in 1..Len(items) : items[k].kind # "malformed"

IsCleanHTMLInvocation(inv) ==
  inv = [type |-> "custom",
         name |-> <<"c", "l", "e", "a", "n", "H", "T", "M", "L">>,
         args |-> << <<"h", "1", ",", "p">>,
                     <<".", "a", "d", "s", ",", ".", "s", "i", "d", "e", "b", "a", "r">> >>]

\* C7: in a chain of well-formed invocations the commas between the
\* invocations, and only they, separate: every custom invocation yields
\* exactly one invocation, whose arguments are its argument list split on ";"
\* with its commas kept; custom:cleanHTML(h1,p;.ads,.sidebar) yields the
\* arguments "h1,p" and ".ads,.sidebar", alone and inside a chain.
C7_CommasInsideCustomDoNotSplit ==
  (Returned("parseTransformChain") /\ WellFormed(call.items)) =>
    LET got  == SelectSeq(ret.transforms, LAMBDA inv : inv.type = "custom")
        want == Customs(call.items)
    IN  /\ ret.ok
        /\ Len(ret.transforms) = Len(NonBlank(call.items))
        /\ Len(got) = Len(want)
        /\ \A k \in 1..Len(want) :
             /\ got[k].name = want[k].name
             /\ got[k].args = want[k].args
             /\ want[k].text = S_cleanHTML => IsCleanHTMLInvocation(got[k])

\* trim,custom:cleanHTML(h1,p;.ads,.sidebar),custom:f() has been parsed
C7_Witness ==
  /\ Returned("parseTransformChain")
  /\ ChainOf(call.items) = T_trim \o <<",">> \o S_cleanHTML \o <<",">> \o S_f_empty
  /\ Len(ret.transforms) = 3
  /\ IsCleanHTMLInvocation(ret.transforms[2])

\* C8: the invocations come out in textual order, each trimmed, the ones
\* that are empty after trimming dropped;
\* removeSuffix( home delivery),trim,lowercase yields three invocations.
C8_OrderTrimDrop ==
  (Returned("parseTransformChain") /\ WellFormed(call.items)) =>
    LET want == NonBlank(call.items)
    IN  /\ ret.ok
        /\ Len(ret.transforms) = Len(want)
        /\ \A k \in 1..Len(want) :
             /\ ret.transforms[k].type = want[k].kind
             /\ ret.transforms[k].name = want[k].name
             /\ want[k].kind = "builtin" => ret.transforms[k].name = Trim(want[k].text)
        /\ ChainOf(call.items) = S_removeSuffix \o <<",">> \o T_trim \o <<",">> \o T_lowercase
             => Len(ret.transforms) = 3

\* removeSuffix( home delivery),trim,lowercase has been parsed
C8_Witness ==
  /\ Returned("parseTransformChain")
  /\ ChainOf(call.items) = S_removeSuffix \o <<",">> \o T_trim \o <<",">> \o T_lowercase
  /\ Len(ret.transforms) = 3
  /\ [k \in 1..3 |-> ret.transforms[k].name] = <<S_removeSuffix, T_trim, T_lowercase>>

\* every item is an invocation of the grammar, written without padding
Plain(items) ==
  \A k \in 1..Len(items) :
    items[k].kind \in {"builtin", "custom"} /\ items[k].text = Trim(items[k].text)

\* C29: a transform of the parser's grammar, custom invocations included, is
\* accepted by validateSchema and returned unchanged.
C29_GrammarPassesValidation ==
  (Returned("validateSchema") /\ Plain(call.items)
     /\ ParseTransformChain(ChainOf(call.items)).ok) =>
    ret.ok /\ ret.transform = ChainOf(call.items)

----------------------------------------------------------------------------
(* Properties of the transform executor                                    *)

OnlyBuiltins(items) == \A k \in 1..Len(items) : items[k].kind = "builtin"

\* the transform function of src/transforms with the given name
TransformModule(name, value) ==
  IF name = T_trim THEN trim(value)
  ELSE IF name = T_lowercase THEN lowercase(value)
  ELSE IF name = T_uppercase THEN uppercase(value)
  ELSE IF name = T_number THEN number(value)
  ELSE IF name = S_removeSuffix THEN removeSuffix(value, S_home_delivery)
  ELSE slugFromUrl(value)

\* the transforms applied one after another from left to right
RECURSIVE LeftToRight(_, _)
LeftToRight(items, value) ==
  IF items = <<>> THEN value
  ELSE LeftToRight(Tail(items), TransformModule(Head(items).name, value))

\* C6: for every chain of built-in names and every string, transformValue
\* does not raise and returns the transforms applied from left to right, each
\* to the output of the one before.
C6_BuiltinChainLeftToRight ==
  (Returned("transformValue") /\ OnlyBuiltins(call.items)) =>
    /\ ret.ok
    /\ ret.value = LeftToRight(call.items, call.value)

\* the chains made of removeSuffix( home delivery), trim and lowercase that
\* name removeSuffix
SuffixChain(items) ==
  /\ \A k \in 1..Len(items) : items[k].name \in {S_removeSuffix, T_trim, T_lowercase}
  /\ \E k \in 1..Len(items) : items[k].name = S_removeSuffix

\* C16: removeSuffix( home delivery) in a chain removes the suffix
\* " home delivery" from a value that ends with it and trims what is left
\* ("Product 1 home delivery" gives "Product 1"), and leaves any other value
\* as it is; the other transforms of the chain apply to its output.
C16_RemoveSuffixInChain ==
  (Returned("transformValue") /\ SuffixChain(call.items)) =>
    /\ ret.ok
    /\ ret.value = LeftToRight(call.items, call.value)
    /\ (call.value = Str(S_Product_1 \o S_home_delivery) /\ Len(call.items) = 1)
         => ret.value = Str(S_Product_1)

\* the custom invocations whose transform cannot be loaded or throws
Failing(item) ==
  /\ item.kind = "custom"
  /\ ModuleOf(moduleDir, item.name) \in {"missing", "notFunction", "throws"}

\* C10: a custom transform that cannot be loaded (no module, or a default
\* export that is no function) or that throws raises nothing and acts as the
\* identity: a chain made of it alone returns the value unchanged, and any
\* chain returns (or raises) what the chain without it does.
C10_FailingCustomIsIdentity ==
  Returned("transformValue") =>
    LET kept == SelectSeq(call.items, LAMBDA it : ~Failing(it))
        r    == TransformValue(call.value, TransformOf(kept), <<>>, moduleDir)
    IN  /\ (\A k \in 1..Len(call.items) : Failing(call.items[k])) =>
             (ret.ok /\ ret.value = call.value)
        /\ ret.ok = r.ok
        /\ ret.ok => ret.value = r.value

\* a chain made of a throwing custom transform has returned its input, and
\* nothing was cached for it
C10_Witness ==
  /\ Returned("transformValue")
  /\ ChainOf(call.items) = S_boom
  /\ call.value = Str(<<" ", "A", "b", " ">>)
  /\ ret.ok
  /\ ret.value = call.value

\* the call transformValue(value, name) of the one built-in name
OnlyTransform(name) ==
  /\ Returned("transformValue")
  /\ Len(call.items) = 1
  /\ call.items[1].text = name

S_price_usd == <<"$", "1", ",", "2", "3", "4", ".", "5", "6", " ", "U", "S", "D">>

\* the characters of s that are a digit, "." or "-"
NumericChars(s) == SelectSeq(s, LAMBDA c : c \in Digits \cup {".", "-"})

\* C21: number drops every character that is not a digit, "." or "-" and
\* parses what is left ("$1,234.56 USD" gives 1234.56); when that is no
\* number the input string itself is returned, and nothing is raised.
C21_NumberStripsAndParses ==
  OnlyTransform(T_number) =>
    /\ ret.ok
    /\ ret.value = number(call.value)
    /\ IF ParseFloat(NumericChars(call.value.v)).nan
       THEN ret.value = call.value
       ELSE ret.value = Num(ParseFloat(NumericChars(call.value.v)).v)
    /\ call.value = Str(S_price_usd) => ret.value = Num(<<"1", "2", "3", "4", ".", "5", "6">>)
    /\ call.value = Str(<<"a", "b", "c">>) => ret.value = Str(<<"a", "b", "c">>)

\* number was applied to "$1,234.56 USD" and returned 1234.56
C21_Witness ==
  /\ OnlyTransform(T_number)
  /\ call.value = Str(S_price_usd)
  /\ ret.value = Num(<<"1", "2", "3", "4", ".", "5", "6">>)

\* number was applied to a string without a digit and returned it
C21_WitnessUnparsed ==
  /\ OnlyTransform(T_number)
  /\ ParseFloat(NumericChars(call.value.v)).nan
  /\ NumericChars(call.value.v) # call.value.v
  /\ ret.value = call.value

\* C22: slugFromUrl returns the path of an absolute URL, and any other
\* string itself, with the leading and the trailing "/" stripped, for every
\* string, those made of "/" only included.
C22_SlugStripsSlashes ==
  (OnlyTransform(T_slugFromUrl) /\ ParseUrl(call.value.v).modelled) =>
    /\ ret.ok
    /\ ret.value = IF ParseUrl(call.value.v).valid
                   THEN Str(StripSlashes(ParseUrl(call.value.v).pathname))
                   ELSE Str(StripSlashes(call.value.v))

\* the number of import() calls made for the name
Loads(imports, name) == Cardinality({k \in 1..Len(imports) : imports[k] = name})

\* the number of invocations of the custom transform name in the chain
Uses(items, name) ==
  Cardinality({k \in 1..Len(items) : items[k].kind = "custom" /\ items[k].name = name})

\* the names of the custom transforms of the chain
CustomNames(items) == {items[k].name : k \in {j \in 1..Len(items) : items[j].kind = "custom"}}

\* the name resolves: its module exists and exports a function
Resolves(name) == ModuleOf(moduleDir, name) \in {"throws", "marks"}

\* C26 as stated: the module of every custom transform name is loaded at
\* most once, however often the name is used: the uses after the first are
\* served from the cache.
C26_LoadedAtMostOnce ==
  Returned("transformValue") =>
    \A name \in CustomNames(call.items) : Loads(ret.imports, name) <= 1

\* C26 as amended: the module of a custom transform name that resolves is
\* loaded at most once, at the first use of the name, and the name is cached
\* from then on; a name that does not resolve is never cached, and its load
\* is attempted at every use.  (A chain that raises has not used the
\* invocations after the one that raised.)
C26_ResolvedLoadedOnce ==
  Returned("transformValue") =>
    \A name \in CustomNames(call.items) :
      IF Resolves(name)
      THEN /\ Loads(ret.imports, name) <= 1
           /\ Loads(ret.imports, name) = 1 <=> name \in DOMAIN ret.cache
           /\ ret.ok => Loads(ret.imports, name) = 1
      ELSE /\ name \notin DOMAIN ret.cache
           /\ Loads(ret.imports, name) <= Uses(call.items, name)
           /\ ret.ok => Loads(ret.imports, name) = Uses(call.items, name)

\* a chain used the custom transform mark three times and loaded it once
C26_Witness ==
  /\ Returned("transformValue")
  /\ Uses(call.items, <<"m", "a", "r", "k">>) = 3
  /\ ret.imports = << <<"m", "a", "r", "k">> >>
  /\ <<"m", "a", "r", "k">> \in DOMAIN ret.cache

----------------------------------------------------------------------------
(* Properties of the field extractor                                       *)

\* what a candidate yields before the transform chain; undefined when the
\* query throws or matches nothing
PreValue(doc, selector, attribute, url) ==
  LET q == Query(doc, selector)
  IN  IF ~q.ok \/ q.elements = <<>> THEN Undefined
      ELSE ExtractAttribute(q.elements[1], attribute, url)

\* the candidates whose value is non-empty before the transform chain
Hits(c) ==
  {k \in 1..Len(SelectorsOf(c.column)) :
     NonEmpty(PreValue(c.doc, SelectorsOf(c.column)[k], c.column.attribute, c.url))}

FirstHit(c) == CHOOSE k \in Hits(c) : \A m \in Hits(c) : k <= m

HasCandidates(c) == c.column.attribute # "url" /\ c.column.selector.kind # "null"

\* C5: the first candidate (in schema order) with a non-empty value before
\* the transform chain determines the field: no later candidate is queried,
\* whatever the chain does, and the field is the chain applied to its value;
\* when no candidate yields a value all are queried and the default (or the
\* empty string) is returned.
C5_FirstNonEmptyCandidateWins ==
  (Returned("extractData") /\ HasCandidates(call)) =>
    LET sels == SelectorsOf(call.column)
    IN  IF Hits(call) = {}
        THEN ret.ok /\ ret.value = DefaultOf(call.column) /\ ret.queried = sels
        ELSE LET h  == FirstHit(call)
                 tv == TransformValue(PreValue(call.doc, sels[h], call.column.attribute,
                                               call.url),
                                      call.column.transform, <<>>, moduleDir)
             IN  /\ ret.queried = Take(sels, h)
                 /\ tv.ok => (ret.ok /\ ret.value = tv.value)

\* the transform chain of the column is parsed: the column takes its value
\* from the URL, or a candidate yields a value
ChainParsed(c) ==
  \/ c.column.attribute = "url"
  \/ HasCandidates(c) /\ Hits(c) # {}

\* C9: a malformed custom invocation raises a parse error that extractData
\* reports to its caller, and the column ends there: no candidate after the
\* one whose value was to be transformed is queried.
C9_ParseErrorEndsColumn ==
  (Returned("extractData") /\ call.column.transform = Str(S_bad) /\ ChainParsed(call)) =>
    /\ ~ret.ok
    /\ HasCandidates(call) => ret.queried = Take(SelectorsOf(call.column), FirstHit(call))

\* the selectors s1, ..., sk of a comma-separated selector string that
\* match an element of the document
Matching(c) ==
  {k \in 1..Len(c.column.selector.list) :
     Query(c.doc, <<c.column.selector.list[k]>>).elements # <<>>}

FirstMatching(c) == CHOOSE k \in Matching(c) : \A m \in Matching(c) : k <= m

\* C19: the selectors of a comma-separated selector string are fallbacks
\* tried in the listed order: the value comes from the first element of the
\* first listed selector that matches, wherever the elements stand in the
\* document.  (Stated for columns without a transform chain and for a
\* non-empty value of that element.)
C19_ListedOrderOfSelectorString ==
  (/\ Returned("extractData")
   /\ call.column.selector.kind = "string"
   /\ call.column.attribute # "url"
   /\ call.column.transform = NoTransform
   /\ Matching(call) # {}) =>
    LET s     == call.column.selector.list[FirstMatching(call)]
        value == PreValue(call.doc, <<s>>, call.column.attribute, call.url)
    IN  NonEmpty(value) => (ret.ok /\ ret.value = value)

\* C23: when no candidate of a column with a default and a transform chain
\* yields a value, extractData returns the chain applied to the default.
C23_ChainAppliedToDefault ==
  (/\ Returned("extractData")
   /\ HasCandidates(call)
   /\ SelectorsOf(call.column) # <<>>
   /\ Hits(call) = {}
   /\ IsString(call.column.default)
   /\ call.column.transform # NoTransform) =>
    LET tv == TransformValue(call.column.default, call.column.transform, <<>>, moduleDir)
    IN  tv.ok => (ret.ok /\ ret.value = tv.value)

\* the candidates on which the document query raises
Invalid(c) ==
  {k \in 1..Len(SelectorsOf(c.column)) : ~Query(c.doc, SelectorsOf(c.column)[k]).ok}

\* C25: a candidate on which the document query raises counts as no match
\* for that candidate only: extractData does not raise because of it, the
\* candidates after it are queried in schema order, and the field is the
\* value of the first candidate with a non-empty value if there is one (the
\* transform chain applied to it), else the default.
C25_InvalidSelectorIsNoMatch ==
  (/\ Returned("extractData")
   /\ HasCandidates(call)
   /\ call.column.selector.kind = "array"
   /\ Invalid(call) # {}) =>
    LET sels == SelectorsOf(call.column)
    IN  IF Hits(call) = {}
        THEN ret.ok /\ ret.value = DefaultOf(call.column) /\ ret.queried = sels
        ELSE LET h  == FirstHit(call)
                 tv == TransformValue(PreValue(call.doc, sels[h], call.column.attribute,
                                               call.url),
                                      call.column.transform, <<>>, moduleDir)
             IN  /\ Take(ret.queried, h) = Take(sels, h)
                 /\ tv.ok => (ret.ok /\ ret.value = tv.value)

\* the first candidate is invalid and the second gave the value
C25_Witness ==
  /\ Returned("extractData")
  /\ call.column.selector = SelArray(<< <<InvalidSelector>>, <<"h1">> >>)
  /\ call.column.attribute = "text"
  /\ call.column.transform = NoTransform
  /\ call.doc = <<E_h1>>
  /\ ret.ok
  /\ ret.value = Str(<<"H", "i">>)
  /\ ret.queried = << <<InvalidSelector>>, <<"h1">> >>
  /\ ret.logs = <<LogLine("warning", "selector")>>

----------------------------------------------------------------------------
(* Properties of the validator                                             *)

\* a value that is missing: absent, undefined or null, or a string that is
\* empty or whitespace-only
IsMissing(row, name) ==
  \/ name \notin DOMAIN row
  \/ row[name].t \in {"undef", "null"}
  \/ row[name].t = "str" /\ Trim(row[name].v) = <<>>

\* some required column of the row is missing
LacksRequired(row, columns) ==
  \E c \in 1..Len(columns) : columns[c].required /\ IsMissing(row, columns[c].name)

\* an entry of invalid without its annotation
Stripped(entry) == [x \in DOMAIN entry \ {"_validation"} |-> entry[x]]

\* C12: a record is placed in invalid exactly when one of its required
\* columns is missing or a blank string, and in valid otherwise; a number,
\* the number 0 too, counts as present.
C12_InvalidIffRequiredMissing ==
  Returned("validateScrapedData") =>
    /\ ret.valid = SelectSeq(call.data, LAMBDA row : ~LacksRequired(row, call.columns))
    /\ [k \in 1..Len(ret.invalid) |-> Stripped(ret.invalid[k])] =
         SelectSeq(call.data, LAMBDA row : LacksRequired(row, call.columns))

\* the elements of seq at the positions of I, in order
Pick(seq, I) ==
  LET idx == SelectSeq([k \in 1..Len(seq) |-> k], LAMBDA k : k \in I)
  IN  [j \in 1..Len(idx) |-> seq[idx[j]]]

\* the input positions (1-based) of the entries of invalid
InvalidRows(r) == {r.invalid[k]["_validation"].rowIndex : k \in 1..Len(r.invalid)}

\* the row with its large texts replaced by a short one
Shrink(row) ==
  [x \in DOMAIN row |-> IF row[x] = Str(LargeText) THEN Str(<<"x">>) ELSE row[x]]

\* C13: the input positions split into those of invalid and the rest: valid
\* is the input records of the rest, in input order and as they were handed
\* in; invalid is the input records of its positions, in input order, each
\* with the _validation annotation added and nothing else changed; and the
\* same positions are invalid when the large texts, which raise the warnings,
\* are replaced by short ones.
C13_PurePartition ==
  Returned("validateScrapedData") =>
    LET I     == InvalidRows(ret)
        small == [k \in 1..Len(call.data) |-> Shrink(call.data[k])]
    IN  /\ I \subseteq 1..Len(call.data)
        /\ Len(ret.valid) + Len(ret.invalid) = Len(call.data)
        /\ ret.valid = Pick(call.data, (1..Len(call.data)) \ I)
        /\ \A k \in 1..Len(ret.invalid) : "_validation" \in DOMAIN ret.invalid[k]
        /\ [k \in 1..Len(ret.invalid) |-> Stripped(ret.invalid[k])] = Pick(call.data, I)
        /\ InvalidRows(ValidateScrapedData(small, call.columns)) = I

\* two records, the first invalid, the second valid with a large-content
\* warning
C13_Witness ==
  /\ Returned("validateScrapedData")
  /\ Len(call.data) = 2
  /\ Field(call.data[2], "a") = Str(LargeText)
  /\ InvalidRows(ret) = {1}
  /\ ret.valid = <<call.data[2]>>
  /\ Len(ret.warnings) = 1
  /\ ret.warnings[1].rowIndex = 2

----------------------------------------------------------------------------
(* Properties of the record                                                *)

\* C17: the record scrapePage returns carries the URL of the page as url
\* and the capture time as timestamp, whatever the columns of the schema
\* are, columns named url or timestamp included.
C17_UrlAndTimestampFixed ==
  Returned("scrapePage") =>
    /\ Field(ret.result, "url") = Str(call.url)
    /\ Field(ret.result, "timestamp") = Timestamp

\* C24: every contained failure leaves its line on the console, with the
\* debug option on or off: the messages scrapePage hands to log for the
\* selector errors, the failures of custom transforms and the column
\* failures are all printed, in their order.
C24_ContainedFailuresLogged ==
  Returned("scrapePage") =>
    /\ Len(ret.console) = Len(ret.logs)
    /\ \A k \in 1..Len(ret.logs) : ret.console[k].message = ret.logs[k]

----------------------------------------------------------------------------
(* Properties of the output                                                *)

\* C20: saveResults writes one line per record of the batch to the main
\* output, in batch order, the cells in the order of the schema's columns,
\* failed records included; and when the validator finds invalid records the
\* second output holds one line for each of them, in their order.
C20_EveryRecordEmitted ==
  (Returned("saveResults") /\ call.data # <<>>) =>
    LET invalid == ValidateScrapedData(call.data, call.columns).invalid
        names   == [k \in 1..Len(call.columns) |-> call.columns[k].name]
    IN  /\ ret.main # NoFile
        /\ ret.main.header = names
        /\ Len(ret.main.lines) = Len(call.data)
        /\ \A r \in 1..Len(call.data) : \A k \in 1..Len(names) :
             ret.main.lines[r][k] = Cell(Field(call.data[r], names[k]))
        /\ invalid # <<>> =>
             /\ ret.invalid # NoFile
             /\ ret.invalid.header = names
             /\ Len(ret.invalid.lines) = Len(invalid)
             /\ \A r \in 1..Len(invalid) : \A k \in 1..Len(names) :
                  ret.invalid.lines[r][k] = Cell(Field(invalid[r], names[k]))

\* a batch of a valid record and a failed one, which lacks the required
\* column: two lines in the main output, one in the output of the invalid
C20_Witness ==
  /\ Returned("saveResults")
  /\ Len(call.data) = 2
  /\ ~IsErrorRecord(call.data[1])
  /\ IsErrorRecord(call.data[2])
  /\ call.columns[1].required
  /\ Len(ret.main.lines) = 2
  /\ ret.main.lines[1] = << <<"x">>, <<"y">> >>
  /\ ret.invalid # NoFile
  /\ ret.invalid.lines = << << <<>>, <<>> >> >>

\* a value with a comma and a quote is written quoted, its quote doubled
C20_WitnessQuoted ==
  /\ Returned("saveResults")
  /\ Len(call.data) = 1
  /\ Field(call.data[1], "a") = Str(<<"a", ",", QuoteChar>>)
  /\ ret.main.lines[1][1] = <<QuoteChar, "a", ",", QuoteChar, QuoteChar, QuoteChar>>

====
